---- MODULE Spec2Model ----
(***************************************************************************)
(* A model of the INI section list (TSectionList), its sections (TSection, *)
(* tKeyValList) and its line parser (read).  Strings are sequences of      *)
(* one-character strings so that trimming, comparing, matching and         *)
(* slicing can be modelled as the Go code performs them.                   *)
(***************************************************************************)
EXTENDS Integers, Sequences, FiniteSets, TLC

VARIABLES
    sl,        \* the TSectionList: [defSect, fName, secOrder, sections]
    last,      \* the call that produced this state, its results and the list before it
    nOps,      \* number of API calls made so far
    input,     \* raw lines handed out by the scanner so far
    lastLine,  \* read(): the continuation buffer
    section,   \* read(): the current section name
    rRead,     \* read(): number of bytes read
    rErr,      \* read(): the error returned, "nil" or "io"
    pc,        \* read(): "idle" | "reading" | "done" | "panic"
    heap,      \* the backing arrays of the slices: array id -> cells
    secOrderRef, \* the slice header of sl.secOrder: [arr, off, len]
    dest,      \* the slice header Sections() returned last
    destVal,   \* what the caller of Sections() last left in that slice
    file,      \* the files: name -> contents, "none" for a file that does not exist
    osRes,     \* what the operating system answered to the last Store()
    cs,        \* a TSection of ini.go: its key/value pairs in the order they were added
    gor        \* the goroutines: what each one is doing and the lock it holds

memVars == <<heap, secOrderRef, dest, destVal>>

fileVars == <<file, osRes>>

vars == <<sl, last, nOps, input, lastLine, section, rRead, rErr, pc,
          heap, secOrderRef, dest, destVal, file, osRes, cs, gor>>

(***************************************************************************)
(* Bounds                                                                  *)
(***************************************************************************)
MaxOps == 3
MaxLines == 3
MaxCalls == 5
MaxVals == 1

(***************************************************************************)
(* Strings                                                                 *)
(***************************************************************************)
\* the characters used by the model, in the order of their byte values
AsciiOrder ==
    << "\t", " ", "\"", "#", "'", "-", ".", "0", "1", "2", "3", "4", "5", "6", "7", "8", "9", ";", "=",
       "D", "F", "T", "[", "\\", "]",
       "a", "b", "e", "f", "k", "l", "r", "s", "t", "u", "v", "w", "x" >>
\* (line ends "\n" and "\r" occur in texts only and are never compared by order)

Ord(c) == CHOOSE i \in 1..Len(AsciiOrder) : AsciiOrder[i] = c

\* unicode.IsSpace restricted to the model's characters
IsSpace(c) == c \in {" ", "\t"}

RECURSIVE TrimLeft(_)
TrimLeft(s) ==
    IF s = <<>> THEN <<>>
    ELSE IF IsSpace(Head(s)) THEN TrimLeft(Tail(s)) ELSE s

RECURSIVE TrimRight(_)
TrimRight(s) ==
    IF s = <<>> THEN <<>>
    ELSE IF IsSpace(s[Len(s)]) THEN TrimRight(SubSeq(s, 1, Len(s) - 1)) ELSE s

\* strings.TrimSpace
TrimSpace(s) == TrimRight(TrimLeft(s))

\* Go's `<` on strings: bytewise lexicographic order
RECURSIVE StrLess(_, _)
StrLess(a, b) ==
    IF b = <<>> THEN FALSE
    ELSE IF a = <<>> THEN TRUE
    ELSE IF Head(a) = Head(b) THEN StrLess(Tail(a), Tail(b))
    ELSE Ord(Head(a)) < Ord(Head(b))

\* the configured name of the default section
DefSection == <<"D", "e", "f", "a", "u", "l", "t">>

(***************************************************************************)
(* tKeyValList                                                             *)
(***************************************************************************)
\* a search that never finds a place before the end of the list
SortSearch_End(kvl, aKey, lo, hi) == hi

\* sort.Search(n, f): binary search over the half-open 0-based range [lo, hi)
RECURSIVE SortSearch(_, _, _, _)
SortSearch(kvl, aKey, lo, hi) ==
    IF lo < hi
    THEN LET h == (lo + hi) \div 2
         IN  IF StrLess(kvl[h + 1].Key, aKey)
             THEN SortSearch(kvl, aKey, h + 1, hi)
             ELSE SortSearch(kvl, aKey, lo, h)
    ELSE lo

\* an insert that appends without looking for the key
insert_Append(kvl, aKeyVal) ==
    LET key == TrimSpace(aKeyVal.Key)
    IN  IF key = <<>> THEN [list |-> kvl, ok |-> FALSE]
        ELSE [list |-> Append(kvl, [Key |-> key, Value |-> aKeyVal.Value]), ok |-> TRUE]

\* tKeyValList.insert: [list, ok]
insert(kvl, aKeyVal) ==
    LET key == TrimSpace(aKeyVal.Key)
        kv == [Key |-> key, Value |-> aKeyVal.Value]
        sLen == Len(kvl)
        idx == SortSearch(kvl, key, 0, sLen)   \* 0-based
    IN  IF key = <<>> THEN [list |-> kvl, ok |-> FALSE]
        ELSE IF sLen = idx
             THEN [list |-> Append(kvl, kv), ok |-> TRUE]
        ELSE IF kvl[idx + 1].Key # key
             THEN [list |-> SubSeq(kvl, 1, idx) \o <<kv>> \o SubSeq(kvl, idx + 1, sLen),
                   ok |-> TRUE]
        ELSE [list |-> [kvl EXCEPT ![idx + 1] = kv], ok |-> TRUE]

\* tKeyValList.hasKey
hasKey(kvl, aKey) == \E i \in 1..Len(kvl) : kvl[i].Key = aKey

\* tKeyValList.value: [val, ok] of the first entry with that key
value(kvl, aKey) ==
    IF hasKey(kvl, aKey)
    THEN LET i == CHOOSE j \in 1..Len(kvl) :
                      /\ kvl[j].Key = aKey
                      /\ \A m \in 1..(j - 1) : kvl[m].Key # aKey
         IN  [val |-> kvl[i].Value, ok |-> TRUE]
    ELSE [val |-> <<>>, ok |-> FALSE]

\* tKeyValList.remove: [list, ok], deletes the first entry with that key
remove(kvl, aKey) ==
    IF hasKey(kvl, aKey)
    THEN LET i == CHOOSE j \in 1..Len(kvl) :
                      /\ kvl[j].Key = aKey
                      /\ \A m \in 1..(j - 1) : kvl[m].Key # aKey
         IN  [list |-> SubSeq(kvl, 1, i - 1) \o SubSeq(kvl, i + 1, Len(kvl)),
              ok |-> TRUE]
    ELSE [list |-> kvl, ok |-> FALSE]

\* tKeyValList.compareTo
compareTo(kvl, aList) ==
    /\ Len(kvl) = Len(aList)
    /\ \A i \in 1..Len(kvl) :
          LET r == value(aList, kvl[i].Key)
          IN  r.ok /\ r.val = kvl[i].Value

(***************************************************************************)
(* TSection                                                                *)
(***************************************************************************)
\* NewSection
NewSection == <<>>

\* TSection.AddKey: [list, ok]
AddKey(data, aKey, aValue) ==
    LET key == TrimSpace(aKey)
    IN  IF key = <<>> THEN [list |-> data, ok |-> FALSE]
        ELSE insert(data, [Key |-> key, Value |-> TrimSpace(aValue)])

\* TSection.UpdateKey
UpdateKey(data, aKey, aValue) == AddKey(data, aKey, aValue)

\* a RemoveKey that reports a missing key as a failure
RemoveKey_Strict(data, aKey) ==
    [list |-> remove(data, aKey).list, ok |-> remove(data, aKey).ok]

\* TSection.RemoveKey: a missing key counts as removed
RemoveKey(data, aKey) == [list |-> remove(data, aKey).list, ok |-> TRUE]

\* TSection.HasKey
HasKey(data, aKey) ==
    LET key == TrimSpace(aKey)
    IN  IF key = <<>> THEN FALSE ELSE hasKey(data, key)

\* TSection.AsString: [val, ok]
SectionAsString(data, aKey) ==
    LET key == TrimSpace(aKey)
    IN  IF key = <<>> THEN [val |-> <<>>, ok |-> FALSE] ELSE value(data, key)

\* an AsBool that knows the English answers only
SectionAsBool_English(data, aKey) ==
    LET key == TrimSpace(aKey)
        r == value(data, key)
        first == Head(Append(r.val, "\t"))
    IN  IF key = <<>> THEN [val |-> FALSE, ok |-> FALSE]
        ELSE IF r.ok /\ first \in {"0", "f", "F", "n", "N"} THEN [val |-> FALSE, ok |-> TRUE]
        ELSE IF r.ok /\ first \in {"1", "t", "T", "y", "Y"} THEN [val |-> TRUE, ok |-> TRUE]
        ELSE [val |-> FALSE, ok |-> FALSE]

\* TSection.AsBool: [val, ok], decided by the first character of value + "\t"
SectionAsBool(data, aKey) ==
    LET key == TrimSpace(aKey)
        r == value(data, key)
        first == Head(Append(r.val, "\t"))
    IN  IF key = <<>> THEN [val |-> FALSE, ok |-> FALSE]
        ELSE IF r.ok /\ first \in {"0", "f", "F", "n", "N"} THEN [val |-> FALSE, ok |-> TRUE]
        ELSE IF r.ok /\ first \in {"1", "t", "T", "y", "Y", "j", "J", "o", "O"}
             THEN [val |-> TRUE, ok |-> TRUE]
        ELSE [val |-> FALSE, ok |-> FALSE]

\* TSection.Sort (sort.Slice by key): insertion of each entry before the
\* first entry with a greater key
RECURSIVE SortData(_)
SortData(data) ==
    IF data = <<>> THEN <<>>
    ELSE LET rest == SortData(Tail(data))
             kv == Head(data)
             n == Cardinality({i \in 1..Len(rest) : StrLess(rest[i].Key, kv.Key)})
         IN  SubSeq(rest, 1, n) \o <<kv>> \o SubSeq(rest, n + 1, Len(rest))

(***************************************************************************)
(* TSectionList                                                            *)
(***************************************************************************)
\* NewSectionList
NewSectionList ==
    [defSect |-> DefSection, fName |-> <<>>, secOrder |-> <<>>,
     sections |-> [n \in {} |-> NewSection]]

\* a section name that is trimmed but never replaced by the default one
SectionName_Raw(l, aSection) == TrimSpace(aSection)

\* the section name an entry point works with: trimmed, "" replaced by defSect
SectionName(l, aSection) ==
    IF TrimSpace(aSection) = <<>> THEN l.defSect ELSE TrimSpace(aSection)

\* assignment to a map element
MapPut(m, k, v) == [n \in DOMAIN m \cup {k} |-> IF n = k THEN v ELSE m[n]]

\* delete(map, key)
MapDelete(m, k) == [n \in DOMAIN m \ {k} |-> m[n]]

\* an addSection that appends the name whether or not the section exists
addSection_Again(l, aSection) ==
    [sl |-> [l EXCEPT !.sections = MapPut(l.sections, aSection,
                                          IF aSection \in DOMAIN l.sections
                                          THEN l.sections[aSection] ELSE NewSection),
                      !.secOrder = Append(l.secOrder, aSection)],
     ok |-> TRUE]

\* an addSection that puts a new name in front
addSection_Front(l, aSection) ==
    IF aSection \in DOMAIN l.sections
    THEN [sl |-> l, ok |-> TRUE]
    ELSE [sl |-> [l EXCEPT !.sections = MapPut(l.sections, aSection, NewSection),
                           !.secOrder = <<aSection>> \o l.secOrder],
          ok |-> TRUE]

\* TSectionList.addSection: [sl, ok]
addSection(l, aSection) ==
    IF aSection \in DOMAIN l.sections
    THEN [sl |-> l, ok |-> TRUE]
    ELSE [sl |-> [l EXCEPT !.sections = MapPut(l.sections, aSection, NewSection),
                           !.secOrder = Append(l.secOrder, aSection)],
          ok |-> TRUE]

\* TSectionList.AddSectionKey: [sl, ok]
AddSectionKey(l, aSection, aKey, aValue) ==
    LET key == TrimSpace(aKey)
        sec == SectionName(l, aSection)
        added == addSection(l, sec)
        r == AddKey(added.sl.sections[sec], key, aValue)
    IN  IF key = <<>> THEN [sl |-> l, ok |-> FALSE]
        ELSE IF ~added.ok THEN [sl |-> l, ok |-> FALSE]
        ELSE [sl |-> [added.sl EXCEPT !.sections[sec] = r.list], ok |-> r.ok]

\* TSectionList.GetSection: the section's list, or an empty one
GetSection(l, aSection) ==
    LET sec == SectionName(l, aSection)
    IN  IF sec \in DOMAIN l.sections THEN l.sections[sec] ELSE <<>>

\* a HasSection that looks the given name up as it is
HasSection_NoAlias(l, aSection) == TrimSpace(aSection) \in DOMAIN l.sections

\* TSectionList.HasSection
HasSection(l, aSection) ==
    IF TrimSpace(aSection) = <<>>
    THEN l.defSect \in DOMAIN l.sections
    ELSE TrimSpace(aSection) \in DOMAIN l.sections

\* TSectionList.HasSectionKey
HasSectionKey(l, aSection, aKey) ==
    LET key == TrimSpace(aKey)
        sec == SectionName(l, aSection)
    IN  IF key = <<>> THEN FALSE
        ELSE IF sec \in DOMAIN l.sections THEN HasKey(l.sections[sec], key)
        ELSE FALSE

\* TSectionList.AsString: [val, ok]
AsString(l, aSection, aKey) ==
    LET key == TrimSpace(aKey)
        sec == SectionName(l, aSection)
    IN  IF key = <<>> THEN [val |-> <<>>, ok |-> FALSE]
        ELSE IF sec \in DOMAIN l.sections THEN SectionAsString(l.sections[sec], key)
        ELSE [val |-> <<>>, ok |-> FALSE]

\* TSectionList.AsBool: [val, ok]
AsBool(l, aSection, aKey) ==
    LET key == TrimSpace(aKey)
        sec == SectionName(l, aSection)
    IN  IF key = <<>> THEN [val |-> FALSE, ok |-> FALSE]
        ELSE IF sec \in DOMAIN l.sections THEN SectionAsBool(l.sections[sec], key)
        ELSE [val |-> FALSE, ok |-> FALSE]

\* a RemoveSection that forgets the order list
RemoveSection_KeepOrder(l, aSection) ==
    LET sec == SectionName(l, aSection)
    IN  IF sec \notin DOMAIN l.sections THEN [sl |-> l, ok |-> TRUE]
        ELSE [sl |-> [l EXCEPT !.sections = MapDelete(l.sections, sec)], ok |-> TRUE]

\* TSectionList.RemoveSection: [sl, ok]
RemoveSection(l, aSection) ==
    LET sec == SectionName(l, aSection)
        deleted == [l EXCEPT !.sections = MapDelete(l.sections, sec)]
        oLen == Len(l.secOrder) - 1
        found == {i \in 1..Len(l.secOrder) : l.secOrder[i] = sec}
        idx == (CHOOSE i \in found : \A j \in found : i <= j) - 1   \* 0-based
        order == l.secOrder
    IN  IF sec \notin DOMAIN l.sections THEN [sl |-> l, ok |-> TRUE]
        ELSE IF 0 > oLen THEN [sl |-> deleted, ok |-> TRUE]
        ELSE IF found = {} THEN [sl |-> deleted, ok |-> FALSE]
        ELSE IF idx = 0
             THEN IF 0 = oLen
                  THEN [sl |-> [deleted EXCEPT !.secOrder = <<>>], ok |-> TRUE]
                  ELSE [sl |-> [deleted EXCEPT !.secOrder = Tail(order)], ok |-> TRUE]
        ELSE IF idx = oLen
             THEN [sl |-> [deleted EXCEPT !.secOrder = SubSeq(order, 1, idx)], ok |-> TRUE]
        ELSE [sl |-> [deleted EXCEPT !.secOrder =
                          SubSeq(order, 1, idx) \o SubSeq(order, idx + 2, Len(order))],
              ok |-> TRUE]

\* TSectionList.RemoveSectionKey: [sl, ok]
RemoveSectionKey(l, aSection, aKey) ==
    LET key == TrimSpace(aKey)
        sec == SectionName(l, aSection)
    IN  IF key = <<>> THEN [sl |-> l, ok |-> TRUE]
        ELSE IF sec \in DOMAIN l.sections
             THEN LET r == RemoveKey(l.sections[sec], key)
                  IN  [sl |-> [l EXCEPT !.sections[sec] = r.list], ok |-> r.ok]
        ELSE [sl |-> l, ok |-> TRUE]

\* an updateSectKey that does not create a missing section
updateSectKey_NoCreate(l, aSection, aKey, aValue) ==
    LET key == TrimSpace(aKey)
        sec == SectionName(l, aSection)
    IN  IF key = <<>> THEN [sl |-> l, ok |-> FALSE]
        ELSE IF sec \in DOMAIN l.sections
             THEN LET r == UpdateKey(l.sections[sec], key, aValue)
                  IN  [sl |-> [l EXCEPT !.sections[sec] = r.list], ok |-> r.ok]
        ELSE [sl |-> l, ok |-> FALSE]

\* TSectionList.updateSectKey: [sl, ok]
updateSectKey(l, aSection, aKey, aValue) ==
    LET key == TrimSpace(aKey)
        sec == SectionName(l, aSection)
    IN  IF key = <<>> THEN [sl |-> l, ok |-> FALSE]
        ELSE IF sec \in DOMAIN l.sections
             THEN LET r == UpdateKey(l.sections[sec], key, aValue)
                  IN  [sl |-> [l EXCEPT !.sections[sec] = r.list], ok |-> r.ok]
        ELSE AddSectionKey(l, sec, key, aValue)

\* a Clear that hands back a list as NewSectionList makes it
Clear_Fresh(l) == NewSectionList

\* TSectionList.Clear
Clear(l) == [l EXCEPT !.secOrder = <<>>, !.sections = [n \in {} |-> NewSection]]

\* a CompareTo that also compares the order of the sections
CompareTo_Ordered(l, aINI) ==
    /\ l.secOrder = aINI.secOrder
    /\ \A name \in DOMAIN l.sections :
          /\ name \in DOMAIN aINI.sections
          /\ compareTo(l.sections[name], aINI.sections[name])

\* TSectionList.CompareTo
CompareTo(l, aINI) ==
    /\ Cardinality(DOMAIN l.sections) = Cardinality(DOMAIN aINI.sections)
    /\ \A name \in DOMAIN l.sections :
          /\ name \in DOMAIN aINI.sections
          /\ compareTo(l.sections[name], aINI.sections[name])

\* TSectionList.Sections: [names, len]
Sections(l) == [names |-> l.secOrder, len |-> Len(l.secOrder)]

\* TSectionList.Sort
Sort(l) ==
    [l EXCEPT !.sections =
        [n \in DOMAIN l.sections |->
            IF \E i \in 1..Len(l.secOrder) : l.secOrder[i] = n
            THEN SortData(l.sections[n]) ELSE l.sections[n]]]

\* TSectionList.Walk: the entries as <<section, key, value>> in the order the
\* callback sees them; `walkOrder` is the order in which `range` yields the
\* map's names, which Go leaves unspecified
RECURSIVE Walk(_, _)
Walk(l, walkOrder) ==
    IF walkOrder = <<>> THEN <<>>
    ELSE LET name == Head(walkOrder)
             kl == l.sections[name]
         IN  [i \in 1..Len(kl) |-> <<name, kl[i].Key, kl[i].Value>>]
                 \o Walk(l, Tail(walkOrder))

\* a mergeWalker that leaves the keys alone which the list already has
RECURSIVE mergeWalker_KeepOld(_, _)
mergeWalker_KeepOld(l, entries) ==
    IF entries = <<>> THEN l
    ELSE mergeWalker_KeepOld(
             IF HasSectionKey(l, entries[1][1], entries[1][2]) THEN l
             ELSE AddSectionKey(l, entries[1][1], entries[1][2], entries[1][3]).sl,
             Tail(entries))

\* TSectionList.mergeWalker applied to each walked entry in turn
RECURSIVE mergeWalker(_, _)
mergeWalker(l, entries) ==
    IF entries = <<>> THEN l
    ELSE mergeWalker(AddSectionKey(l, entries[1][1], entries[1][2], entries[1][3]).sl,
                     Tail(entries))

\* TSectionList.Merge with a non-nil argument
Merge(l, aINI, walkOrder) == mergeWalker(l, Walk(aINI, walkOrder))

\* the orders in which a map's names can be ranged over
WalkOrders(m) ==
    {o \in [1..Cardinality(DOMAIN m) -> DOMAIN m] :
        \A i, j \in DOMAIN o : i # j => o[i] # o[j]}

\* fmt.Sprintf("%d", n)
Digit(d) == <<"0", "1", "2", "3", "4", "5", "6", "7", "8", "9">>[d + 1]

RECURSIVE FormatUInt(_)
FormatUInt(n) ==
    IF n < 10 THEN <<Digit(n)>> ELSE Append(FormatUInt(n \div 10), Digit(n % 10))

FormatInt(n) == IF n < 0 THEN <<"-">> \o FormatUInt(0 - n) ELSE FormatUInt(n)

\* fmt.Sprintf("%f", x) for x = millionths / 10^6: six digits after the point
FormatFloat(millionths) ==
    LET m == IF millionths < 0 THEN 0 - millionths ELSE millionths
        frac == m % 1000000
        digits == [i \in 1..6 |-> Digit((frac \div (10 ^ (6 - i))) % 10)]
    IN  (IF millionths < 0 THEN <<"-">> ELSE <<>>)
            \o FormatUInt(m \div 1000000) \o <<".">> \o digits

\* TSectionList.UpdateSectKeyBool
UpdateSectKeyBool(l, aSection, aKey, aValue) ==
    IF aValue THEN updateSectKey(l, aSection, aKey, <<"T", "r", "u", "e">>)
    ELSE updateSectKey(l, aSection, aKey, <<"F", "a", "l", "s", "e">>)

\* TSectionList.UpdateSectKeyFloat
UpdateSectKeyFloat(l, aSection, aKey, aValue) ==
    updateSectKey(l, aSection, aKey, FormatFloat(aValue))

\* TSectionList.UpdateSectKeyInt
UpdateSectKeyInt(l, aSection, aKey, aValue) ==
    updateSectKey(l, aSection, aKey, FormatInt(aValue))

\* TSectionList.UpdateSectKeyUInt
UpdateSectKeyUInt(l, aSection, aKey, aValue) ==
    updateSectKey(l, aSection, aKey, FormatUInt(aValue))

\* TSectionList.UpdateSectKeyStr
UpdateSectKeyStr(l, aSection, aKey, aValue) ==
    updateSectKey(l, aSection, aKey, aValue)

(***************************************************************************)
(* Arguments of the calls                                                  *)
(***************************************************************************)
SecArgs == {<<>>, <<"a">>, <<" ", "b">>}
RemSecArgs == SecArgs \cup {DefSection}
KeyArgs == {<<" ">>, <<"k">>, <<"l", " ">>}
ValArgs == {<<>>, <<" ", "v">>}
UpdSecArgs == {<<"a">>}
UpdKeyArgs == {<<" ">>, <<"k">>}
IntArgs == {0 - 7}
UIntArgs == {10}
FloatArgs == {1500000}

\* a list filled by a series of AddSectionKey calls
RECURSIVE Build(_)
Build(calls) ==
    IF calls = <<>> THEN NewSectionList
    ELSE AddSectionKey(Build(SubSeq(calls, 1, Len(calls) - 1)),
                       calls[Len(calls)][1], calls[Len(calls)][2],
                       calls[Len(calls)][3]).sl

\* the lists handed to Merge
MergeArgs ==
    { Build(<< <<<<"a">>, <<"k">>, <<"v">>>> >>),
      Build(<< <<<<>>, <<"k">>, <<>>>>, <<<<"b">>, <<"l">>, <<"v">>>>,
               <<<<>>, <<"l">>, <<"v">>>> >>) }

(***************************************************************************)
(* The typed accessors                                                     *)
(***************************************************************************)
IsDigit(c) == c \in {"0", "1", "2", "3", "4", "5", "6", "7", "8", "9"}

\* a digit string without its leading zeros ("0" for zero)
RECURSIVE StripZeros(_)
StripZeros(d) ==
    IF Len(d) > 1 /\ Head(d) = "0" THEN StripZeros(Tail(d)) ELSE d

\* a < b for digit strings of the same length
RECURSIVE DigitsLess(_, _)
DigitsLess(a, b) ==
    IF a = <<>> THEN FALSE
    ELSE IF Head(a) = Head(b) THEN DigitsLess(Tail(a), Tail(b))
    ELSE Ord(Head(a)) < Ord(Head(b))

\* a < b for numbers written as digit strings without leading zeros
DecLess(a, b) ==
    IF Len(a) # Len(b) THEN Len(a) < Len(b) ELSE DigitsLess(a, b)

\* 2^bitSize - 1, the largest value of an unsigned integer of that size
MaxUint(bitSize) ==
    CASE bitSize = 8 -> <<"2", "5", "5">>
      [] bitSize = 16 -> <<"6", "5", "5", "3", "5">>
      [] bitSize = 32 -> <<"4", "2", "9", "4", "9", "6", "7", "2", "9", "5">>
      [] bitSize = 64 -> <<"1", "8", "4", "4", "6", "7", "4", "4", "0", "7", "3", "7", "0", "9", "5", "5", "1", "6", "1", "5">>

\* 2^(bitSize-1), the cutoff of a signed integer of that size
Cutoff(bitSize) ==
    CASE bitSize = 8 -> <<"1", "2", "8">>
      [] bitSize = 16 -> <<"3", "2", "7", "6", "8">>
      [] bitSize = 32 -> <<"2", "1", "4", "7", "4", "8", "3", "6", "4", "8">>
      [] bitSize = 64 -> <<"9", "2", "2", "3", "3", "7", "2", "0", "3", "6", "8", "5", "4", "7", "7", "5", "8", "0", "8">>

\* strconv.ParseUint(s, 10, bitSize): [val, err]; no sign is accepted; on a
\* range error the value is the largest one of that size
ParseUint(s, bitSize) ==
    IF s = <<>> \/ \E i \in 1..Len(s) : ~IsDigit(s[i])
    THEN [val |-> <<"0">>, err |-> "syntax"]
    ELSE IF DecLess(MaxUint(bitSize), StripZeros(s))
         THEN [val |-> MaxUint(bitSize), err |-> "range"]
    ELSE [val |-> StripZeros(s), err |-> "nil"]

\* a ParseInt that takes the cutoff itself for a positive value in range
ParseInt_CutoffIn(s, bitSize) ==
    LET signed == s # <<>> /\ s[1] \in {"+", "-"}
        neg == s # <<>> /\ s[1] = "-"
        un == ParseUint(IF signed THEN Tail(s) ELSE s, bitSize)
    IN  IF s = <<>> \/ un.err = "syntax" THEN [val |-> <<"0">>, ok |-> FALSE]
        ELSE IF DecLess(Cutoff(bitSize), un.val) THEN [val |-> <<"0">>, ok |-> FALSE]
        ELSE [val |-> IF neg /\ un.val # <<"0">> THEN <<"-">> \o un.val ELSE un.val,
              ok |-> TRUE]

\* strconv.ParseInt(s, 10, bitSize): [val, ok]; one leading + or - is
\* accepted, the rest goes through ParseUint and is checked against the cutoff
ParseInt(s, bitSize) ==
    LET signed == s # <<>> /\ s[1] \in {"+", "-"}
        neg == s # <<>> /\ s[1] = "-"
        un == ParseUint(IF signed THEN Tail(s) ELSE s, bitSize)
    IN  IF s = <<>> \/ un.err = "syntax" THEN [val |-> <<"0">>, ok |-> FALSE]
        ELSE IF ~neg /\ ~DecLess(un.val, Cutoff(bitSize))
             THEN [val |-> <<"0">>, ok |-> FALSE]
        ELSE IF neg /\ DecLess(Cutoff(bitSize), un.val)
             THEN [val |-> <<"0">>, ok |-> FALSE]
        ELSE [val |-> IF neg /\ un.val # <<"0">> THEN <<"-">> \o un.val ELSE un.val,
              ok |-> TRUE]

\* TSection.AsInt8, AsInt16, AsInt32, AsInt64: [val, ok]
SectionAsIntN(data, aKey, bitSize) ==
    LET key == TrimSpace(aKey)
        r == value(data, key)
        i64 == ParseInt(r.val, bitSize)
    IN  IF key = <<>> THEN [val |-> <<"0">>, ok |-> FALSE]
        ELSE IF r.ok /\ i64.ok THEN [val |-> i64.val, ok |-> TRUE]
        ELSE [val |-> <<"0">>, ok |-> FALSE]

\* TSection.AsUInt8, AsUInt16, AsUInt32, AsUInt64: [val, ok]
SectionAsUIntN(data, aKey, bitSize) ==
    LET key == TrimSpace(aKey)
        r == value(data, key)
        ui64 == ParseUint(r.val, bitSize)
    IN  IF key = <<>> THEN [val |-> <<"0">>, ok |-> FALSE]
        ELSE IF r.ok /\ ui64.err = "nil" THEN [val |-> ui64.val, ok |-> TRUE]
        ELSE [val |-> <<"0">>, ok |-> FALSE]

\* TSectionList.AsInt8, AsInt16, AsInt32, AsInt64: [val, ok]
AsIntN(l, aSection, aKey, bitSize) ==
    LET key == TrimSpace(aKey)
        sec == SectionName(l, aSection)
    IN  IF key = <<>> THEN [val |-> <<"0">>, ok |-> FALSE]
        ELSE IF sec \in DOMAIN l.sections
             THEN SectionAsIntN(l.sections[sec], key, bitSize)
        ELSE [val |-> <<"0">>, ok |-> FALSE]

\* TSectionList.AsUInt8, AsUInt16, AsUInt32, AsUInt64: [val, ok]
AsUIntN(l, aSection, aKey, bitSize) ==
    LET key == TrimSpace(aKey)
        sec == SectionName(l, aSection)
    IN  IF key = <<>> THEN [val |-> <<"0">>, ok |-> FALSE]
        ELSE IF sec \in DOMAIN l.sections
             THEN SectionAsUIntN(l.sections[sec], key, bitSize)
        ELSE [val |-> <<"0">>, ok |-> FALSE]

(***************************************************************************)
(* The TSection of ini.go: a slice of key/value pairs                      *)
(***************************************************************************)
\* TSection.IndexOf (0-based, -1 when the key is missing)
IniIndexOf(sec, aKey) ==
    IF \E i \in 1..Len(sec) : sec[i].Key = aKey
    THEN (CHOOSE i \in 1..Len(sec) :
              sec[i].Key = aKey /\ \A j \in 1..(i - 1) : sec[j].Key # aKey) - 1
    ELSE 0 - 1

\* TSection.AsString: [val, ok], the value of the last pair with that key
IniAsString(sec, aKey) ==
    IF \E i \in 1..Len(sec) : sec[i].Key = aKey
    THEN [val |-> sec[CHOOSE i \in 1..Len(sec) :
                         sec[i].Key = aKey
                             /\ \A j \in (i + 1)..Len(sec) : sec[j].Key # aKey].Value,
          ok |-> TRUE]
    ELSE [val |-> <<>>, ok |-> FALSE]

\* TSection.AddKey: [list, ok]
IniAddKey(sec, aKey, aValue) ==
    LET idx == IniIndexOf(sec, aKey)
        list == IF 0 > idx THEN Append(sec, [Key |-> aKey, Value |-> aValue])
                ELSE [sec EXCEPT ![idx + 1].Value = aValue]
    IN  IF 0 < Len(aKey)
        THEN [list |-> list, ok |-> IniAsString(list, aKey).val = aValue]
        ELSE [list |-> sec, ok |-> FALSE]

\* TSection.AsBool: [val, ok, panic]; val[:1] of an empty string is a
\* run-time panic (slice bounds out of range)
IniAsBool(sec, aKey) ==
    LET r == IniAsString(sec, aKey)
    IN  IF ~r.ok THEN [val |-> FALSE, ok |-> FALSE, panic |-> FALSE]
        ELSE IF Len(r.val) < 1 THEN [val |-> FALSE, ok |-> FALSE, panic |-> TRUE]
        ELSE IF r.val[1] \in {"0", "f", "F", "n", "N"}
             THEN [val |-> FALSE, ok |-> TRUE, panic |-> FALSE]
        ELSE IF r.val[1] \in {"1", "t", "T", "y", "Y"}
             THEN [val |-> TRUE, ok |-> TRUE, panic |-> FALSE]
        ELSE [val |-> FALSE, ok |-> FALSE, panic |-> FALSE]

(***************************************************************************)
(* Slices: sl.secOrder and the slice Sections() returns, with the arrays   *)
(* behind them                                                             *)
(***************************************************************************)
slDefCapacity == 16

\* the ids of the arrays that can be live at once: the one behind
\* sl.secOrder, the one behind the returned slice and one being allocated
ArrIds == {1, 2, 3}

\* a slice without an array (nil, or of capacity 0)
NilSlice == [arr |-> 0, off |-> 0, len |-> 0]

\* n zero values of the type string
Zeroed(n) == [i \in 1..n |-> <<>>]

\* the elements of a slice
View(h, s) == IF s.arr = 0 THEN <<>> ELSE SubSeq(h[s.arr], s.off + 1, s.off + s.len)

\* cap(s)
Cap(h, s) == IF s.arr = 0 THEN 0 ELSE Len(h[s.arr]) - s.off

\* the id of a fresh array
Alloc(h) == CHOOSE a \in ArrIds : h[a] = <<>> /\ \A b \in ArrIds : h[b] = <<>> => a <= b

\* the garbage collector: arrays no slice refers to are gone
Collect(h, live) == [a \in ArrIds |-> IF a \in live THEN h[a] ELSE <<>>]

\* make([]string, len, cap): [heap, s]
goMake(h, len, cap) ==
    IF cap = 0 THEN [heap |-> h, s |-> NilSlice]
    ELSE [heap |-> [h EXCEPT ![Alloc(h)] = Zeroed(cap)],
          s |-> [arr |-> Alloc(h), off |-> 0, len |-> len]]

\* copy(dst, src): the heap afterwards
goCopy(h, dst, src) ==
    LET n == IF dst.len < src.len THEN dst.len ELSE src.len
    IN  IF n = 0 THEN h
        ELSE [h EXCEPT ![dst.arr] =
                 [i \in 1..Len(@) |->
                     IF i > dst.off /\ i <= dst.off + n
                     THEN h[src.arr][src.off + (i - dst.off)] ELSE @[i]]]

\* append(s, x): in place while the capacity lasts, else into a new array of
\* twice the capacity: [heap, s]
goAppend(h, s, x) ==
    IF s.len < Cap(h, s)
    THEN [heap |-> [h EXCEPT ![s.arr][s.off + s.len + 1] = x],
          s |-> [s EXCEPT !.len = @ + 1]]
    ELSE LET newCap == IF Cap(h, s) = 0 THEN 1 ELSE 2 * Cap(h, s)
         IN  [heap |-> [h EXCEPT ![Alloc(h)] =
                           View(h, s) \o <<x>> \o Zeroed(newCap - s.len - 1)],
              s |-> [arr |-> Alloc(h), off |-> 0, len |-> s.len + 1]]

\* append(s[:idx], s[idx+1:]...) for 0 < idx < len(s)-1: the elements behind
\* idx move one cell down inside the same array: [heap, s]
goAppendTail(h, s, idx) ==
    [heap |-> [h EXCEPT ![s.arr] =
                  [i \in 1..Len(@) |->
                      IF i > s.off + idx /\ i < s.off + s.len THEN @[i + 1] ELSE @[i]]],
     s |-> [s EXCEPT !.len = @ - 1]]

\* addSection on the slice: sl.secOrder = append(sl.secOrder, aSection) when
\* the section is created
addSectionOrder(h, s, l, aSection) ==
    IF aSection \in DOMAIN l.sections THEN [heap |-> h, s |-> s]
    ELSE goAppend(h, s, aSection)

\* AddSectionKey on the slice
AddSectionKeyOrder(h, s, l, aSection, aKey) ==
    IF TrimSpace(aKey) = <<>> THEN [heap |-> h, s |-> s]
    ELSE addSectionOrder(h, s, l, SectionName(l, aSection))

\* RemoveSection on the slice
RemoveSectionOrder(h, s, l, aSection) ==
    LET sec == SectionName(l, aSection)
        order == View(h, s)
        oLen == s.len - 1
        found == {i \in 1..Len(order) : order[i] = sec}
        idx == (CHOOSE i \in found : \A j \in found : i <= j) - 1   \* 0-based
    IN  IF sec \notin DOMAIN l.sections THEN [heap |-> h, s |-> s]
        ELSE IF 0 > oLen \/ found = {} THEN [heap |-> h, s |-> s]
        ELSE IF idx = 0
             THEN IF 0 = oLen THEN goMake(h, 0, slDefCapacity)
                  ELSE [heap |-> h, s |-> [s EXCEPT !.off = @ + 1, !.len = @ - 1]]
        ELSE IF idx = oLen THEN [heap |-> h, s |-> [s EXCEPT !.len = idx]]
        ELSE goAppendTail(h, s, idx)

\* Clear on the slice: sl.secOrder = make(tSectionOrder, 0, slDefCapacity)
ClearOrder(h) == goMake(h, 0, slDefCapacity)

\* a Sections() that hands out sl.secOrder itself
SectionsDest_Alias(h, s) == [heap |-> h, s |-> s, len |-> s.len]

\* TSectionList.Sections on the slice: dest := make([]string, len(sl.secOrder));
\* len := copy(dest, sl.secOrder): [heap, s, len]
SectionsDest(h, s) ==
    LET made == goMake(h, s.len, s.len)
    IN  [heap |-> goCopy(made.heap, made.s, s), s |-> made.s,
         len |-> IF made.s.len < s.len THEN made.s.len ELSE s.len]

\* the state of the memory after NewSectionList()
MemInit ==
    /\ heap = [a \in ArrIds |-> IF a = 1 THEN Zeroed(slDefCapacity) ELSE <<>>]
    /\ secOrderRef = [arr |-> 1, off |-> 0, len |-> 0]
    /\ dest = NilSlice
    /\ destVal = <<>>

(***************************************************************************)
(* The file: SetFilename and Store                                         *)
(***************************************************************************)
\* TSectionList.SetFilename
SetFilename(l, aFilename) == [l EXCEPT !.fName = TrimSpace(aFilename)]

\* the file names given to SetFilename, and the names the list can hold
FileArgs == {<<>>, <<" ", "f">>}
FileNames == {TrimSpace(f) : f \in FileArgs}

\* what os.Create and file.Write can answer when text is to be written to
\* the file name: Create fails (always for the empty name), or the whole
\* text is written, or the write stops with an error after 0 or more bytes
OsAnswers(name, text) ==
    {[create |-> "ENOENT", written |-> 0, write |-> "nil"]}
    \cup (IF name = <<>> THEN {}
          ELSE {[create |-> "nil", written |-> Len(text), write |-> "nil"]}
               \cup {[create |-> "nil", written |-> n, write |-> "ENOSPC"] :
                        n \in {0, Len(text) \div 2} \cap 0..(Len(text) - 1)})

\* a Store that reports no bytes when the write fails
Store_ZeroOnError(l, os) ==
    IF os.create # "nil" THEN [n |-> 0, err |-> os.create]
    ELSE IF os.write # "nil" THEN [n |-> 0, err |-> os.write]
    ELSE [n |-> os.written, err |-> os.write]

\* TSectionList.Store, given the operating system's answers: [n, err]
Store(l, os) ==
    IF os.create # "nil" THEN [n |-> 0, err |-> os.create]
    ELSE [n |-> os.written, err |-> os.write]

\* no file exists, Store() was not called
FileInit ==
    /\ file = [n \in FileNames |-> "none"]
    /\ osRes = [create |-> "nil", written |-> 0, write |-> "nil"]

(***************************************************************************)
(* Goroutines                                                              *)
(***************************************************************************)
Goroutines == {1, 2}

\* a goroutine that is in no call
Idle ==
    [pc |-> "idle", op |-> "none", sec |-> <<>>, key |-> <<>>, lock |-> "none",
     new |-> FALSE, snap |-> <<>>]

GorInit == [g \in Goroutines |-> Idle]

(***************************************************************************)
(* The calls on the list                                                   *)
(***************************************************************************)
NoCall ==
    [op |-> "none", sec |-> <<>>, key |-> <<>>, val |-> <<>>, ok |-> TRUE,
     pre |-> NewSectionList, arg |-> NewSectionList, buf |-> <<>>, line |-> <<>>,
     ret |-> <<>>]

Called(op, sec, key, val, r, arg) ==
    /\ nOps < MaxOps
    /\ nOps' = nOps + 1
    /\ sl' = r.sl
    /\ last' = [op |-> op, sec |-> sec, key |-> key, val |-> val, ok |-> r.ok,
                pre |-> sl, arg |-> arg, buf |-> <<>>, line |-> <<>>, ret |-> <<>>]
    /\ UNCHANGED <<input, lastLine, section, rRead, rErr, pc>>
    /\ UNCHANGED <<memVars, fileVars, cs, gor>>

DoAddSectionKey ==
    \E s \in SecArgs, k \in KeyArgs, v \in ValArgs :
        Called("AddSectionKey", s, k, v, AddSectionKey(sl, s, k, v), NewSectionList)

DoUpdateSectKeyStr ==
    \E s \in UpdSecArgs, k \in UpdKeyArgs, v \in ValArgs :
        Called("UpdateSectKeyStr", s, k, v, UpdateSectKeyStr(sl, s, k, v), NewSectionList)

DoUpdateSectKeyBool ==
    \E s \in UpdSecArgs, k \in UpdKeyArgs, b \in BOOLEAN :
        Called("UpdateSectKeyBool", s, k, <<>>, UpdateSectKeyBool(sl, s, k, b),
               NewSectionList)

DoUpdateSectKeyInt ==
    \E s \in UpdSecArgs, k \in UpdKeyArgs, n \in IntArgs :
        Called("UpdateSectKeyInt", s, k, <<>>, UpdateSectKeyInt(sl, s, k, n),
               NewSectionList)

DoUpdateSectKeyUInt ==
    \E s \in UpdSecArgs, k \in UpdKeyArgs, n \in UIntArgs :
        Called("UpdateSectKeyUInt", s, k, <<>>, UpdateSectKeyUInt(sl, s, k, n),
               NewSectionList)

DoUpdateSectKeyFloat ==
    \E s \in UpdSecArgs, k \in UpdKeyArgs, x \in FloatArgs :
        Called("UpdateSectKeyFloat", s, k, <<>>, UpdateSectKeyFloat(sl, s, k, x),
               NewSectionList)

DoRemoveSection ==
    \E s \in RemSecArgs :
        Called("RemoveSection", s, <<>>, <<>>, RemoveSection(sl, s), NewSectionList)

DoRemoveSectionKey ==
    \E s \in SecArgs, k \in KeyArgs :
        Called("RemoveSectionKey", s, k, <<>>, RemoveSectionKey(sl, s, k), NewSectionList)

DoClear ==
    Called("Clear", <<>>, <<>>, <<>>, [sl |-> Clear(sl), ok |-> TRUE], NewSectionList)

\* Merge with another list, or with this list itself
DoMerge ==
    \E aINI \in MergeArgs \cup {sl} :
        \E walkOrder \in WalkOrders(aINI.sections) :
            Called("Merge", <<>>, <<>>, <<>>,
                   [sl |-> Merge(sl, aINI, walkOrder), ok |-> TRUE], aINI)

\* Merge(nil) returns the list as it is
DoMergeNil ==
    Called("MergeNil", <<>>, <<>>, <<>>, [sl |-> sl, ok |-> TRUE], NewSectionList)

Init ==
    /\ sl = NewSectionList
    /\ last = NoCall
    /\ nOps = 0
    /\ input = <<>>
    /\ lastLine = <<>>
    /\ section = DefSection
    /\ rRead = 0
    /\ rErr = "nil"
    /\ pc = "idle"
    /\ MemInit
    /\ FileInit
    /\ cs = <<>>
    /\ gor = GorInit

Next ==
    \/ DoAddSectionKey
    \/ DoUpdateSectKeyStr
    \/ DoUpdateSectKeyBool
    \/ DoUpdateSectKeyInt
    \/ DoUpdateSectKeyUInt
    \/ DoUpdateSectKeyFloat
    \/ DoRemoveSection
    \/ DoRemoveSectionKey
    \/ DoClear
    \/ DoMerge
    \/ DoMergeNil

Spec == Init /\ [][Next]_vars

(***************************************************************************)
(* The parser                                                              *)
(***************************************************************************)
\* a header recogniser that never matches
isSectionRE_Never(line) == [ok |-> FALSE, name |-> <<>>]

\* isSectionRE `^\[\s*([^\]]*?)\s*]$`: [ok, name]
isSectionRE(line) ==
    LET n == Len(line)
        inner == SubSeq(line, 2, n - 1)
    IN  IF /\ n >= 2
           /\ line[1] = "["
           /\ line[n] = "]"
           /\ \A i \in 1..Len(inner) : inner[i] # "]"
        THEN [ok |-> TRUE, name |-> TrimSpace(inner)]
        ELSE [ok |-> FALSE, name |-> <<>>]

\* isKeyValRE `^([^=]+?)\s*=\s*(.*)$`: [ok, key, val]
isKeyValRE(line) ==
    LET eqs == {i \in 1..Len(line) : line[i] = "="}
        first == CHOOSE i \in eqs : \A j \in eqs : i <= j
        prefix == SubSeq(line, 1, first - 1)
    IN  IF eqs # {} /\ first >= 2
        THEN [ok |-> TRUE,
              key |-> IF TrimRight(prefix) = <<>> THEN <<prefix[1]>> ELSE TrimRight(prefix),
              val |-> TrimLeft(SubSeq(line, first + 1, Len(line)))]
        ELSE [ok |-> FALSE, key |-> <<>>, val |-> <<>>]

IsQuote(c) == c \in {"'", "\""}

\* a removeQuotes that does not compare the two quote characters
removeQuotes_AnyPair(aString) ==
    LET r == TrimSpace(aString)
        n == Len(r)
    IN  IF n >= 2 /\ IsQuote(r[1]) /\ IsQuote(r[n])
        THEN TrimSpace(SubSeq(r, 2, n - 1))
        ELSE r

\* removeQuotes, with isQuotesRE `^\s*(['"])\s*(.*?)\s*(['"])\s*$`
removeQuotes(aString) ==
    LET r == TrimSpace(aString)
        n == Len(r)
    IN  IF n >= 2 /\ IsQuote(r[1]) /\ IsQuote(r[n]) /\ r[1] = r[n]
        THEN TrimSpace(SubSeq(r, 2, n - 1))
        ELSE r

\* a continuation that always inserts a space
continuation_AlwaysSpace(buf, line, lineLen) ==
    buf \o SubSeq(line, 1, lineLen - 1) \o <<" ">>

\* read(): the buffer after a line that ends with a backslash
continuation(buf, line, lineLen) ==
    IF 1 < lineLen /\ line[lineLen - 1] = " "
    THEN buf \o SubSeq(line, 1, lineLen - 1)
    ELSE buf \o SubSeq(line, 1, lineLen - 1) \o <<" ">>

\* the body of read()'s loop for one raw line, on the loop's state
\* st = [sl, lastLine, section, rRead]; the result adds
\*   panic: the iteration ends in a run-time panic (index out of range),
\*   emitted: a logical line reached the classification,  line: that line
readLine(st, raw) ==
    LET trimmed == TrimSpace(raw)
        lineLen == Len(trimmed)
        read == st.rRead + Len(raw) + 1
        skip(buf) == [sl |-> st.sl, lastLine |-> buf, section |-> st.section,
                      rRead |-> read, panic |-> FALSE, emitted |-> FALSE, line |-> <<>>]
        panicked == [sl |-> st.sl, lastLine |-> st.lastLine, section |-> st.section,
                     rRead |-> read, panic |-> TRUE, emitted |-> FALSE, line |-> <<>>]
        \* if 0 == lineLen { ... line, lastLine = lastLine, "" }
        line1 == IF lineLen = 0 THEN st.lastLine ELSE trimmed
        last1 == IF lineLen = 0 THEN <<>> ELSE st.lastLine
        \* if ';' == line[0] || '#' == line[0] { ... line, lastLine = lastLine, "" }
        isComment == line1[1] \in {";", "#"}
        line2 == IF isComment THEN last1 ELSE line1
        last2 == IF isComment THEN <<>> ELSE last1
        \* if 0 < len(lastLine) { line, lastLine = lastLine+line, "" }
        line3 == IF Len(last2) > 0 THEN last2 \o line2 ELSE line2
        sec == isSectionRE(line3)
        kv == isKeyValRE(line3)
    IN  IF lineLen = 0 /\ st.lastLine = <<>> THEN skip(st.lastLine)
        ELSE IF isComment /\ last1 = <<>> THEN skip(last1)
        \* line[lineLen-1] with the length of the raw line
        ELSE IF lineLen - 1 < 0 \/ lineLen - 1 >= Len(line2) THEN panicked
        ELSE IF line2[lineLen] = "\\"
             THEN skip(continuation(last2, line2, lineLen))
        ELSE IF sec.ok
             THEN [sl |-> st.sl, lastLine |-> <<>>, section |-> TrimSpace(sec.name),
                   rRead |-> read, panic |-> FALSE, emitted |-> TRUE, line |-> line3]
        ELSE IF kv.ok
             THEN [sl |-> AddSectionKey(st.sl, st.section, TrimSpace(kv.key),
                                        removeQuotes(kv.val)).sl,
                   lastLine |-> <<>>, section |-> st.section,
                   rRead |-> read, panic |-> FALSE, emitted |-> TRUE, line |-> line3]
        ELSE [sl |-> st.sl, lastLine |-> <<>>, section |-> st.section,
              rRead |-> read, panic |-> FALSE, emitted |-> TRUE, line |-> line3]

\* read() over a whole sequence of lines, from the state st
RECURSIVE readAll(_, _)
readAll(st, rawLines) ==
    IF rawLines = <<>> THEN st
    ELSE LET r == readLine(st, Head(rawLines))
         IN  IF r.panic THEN r ELSE readAll(r, Tail(rawLines))

\* the state read() starts with on the list l
readStart(l) ==
    [sl |-> l, lastLine |-> <<>>, section |-> l.defSect, rRead |-> 0,
     panic |-> FALSE, emitted |-> FALSE, line |-> <<>>]

\* tKeyValList.String
RECURSIVE KeyValString(_)
KeyValString(kvl) ==
    IF kvl = <<>> THEN <<>>
    ELSE (IF Head(kvl).Value = <<>>
          THEN Head(kvl).Key \o <<" ", "=", "\n">>
          ELSE Head(kvl).Key \o <<" ", "=", " ">> \o Head(kvl).Value \o <<"\n">>)
         \o KeyValString(Tail(kvl))

\* TSectionList.String: the text (the sections are sorted on the way)
RECURSIVE SectionsString(_, _)
SectionsString(l, order) ==
    IF order = <<>> THEN <<>>
    ELSE LET name == Head(order)
         IN  (IF name \in DOMAIN l.sections
              THEN <<"\n", "[">> \o name \o <<"]", "\n">>
                       \o KeyValString(SortData(l.sections[name]))
              ELSE <<>>)
             \o SectionsString(l, Tail(order))

String(l) == SectionsString(l, l.secOrder)

\* bufio.ScanLines: the lines of a text, without their line ends; a last
\* line without a line end is returned when it is not empty
RECURSIVE ScanLines(_, _)
ScanLines(text, cur) ==
    IF text = <<>> THEN (IF cur = <<>> THEN <<>> ELSE <<cur>>)
    ELSE IF Head(text) = "\n"
         THEN <<(IF cur # <<>> /\ cur[Len(cur)] = "\r"
                 THEN SubSeq(cur, 1, Len(cur) - 1) ELSE cur)>>
                  \o ScanLines(Tail(text), <<>>)
    ELSE ScanLines(Tail(text), Append(cur, Head(text)))

\* the raw lines of the documents
LineEmpty == <<>>
LineComment == <<";", "a", "a", "a", "a", "a", "a", "a", "a", "a", "a", "a">>
LineHash == <<"#">>
LineHeader == <<"[", "a", "]">>
LineHeaderEmpty == <<"[", " ", "]">>
LineKeyVal == <<"k", " ", "=", " ", "v">>
LineQuoted == <<"l", "=", "'", "v", "'">>
LineNested == <<"k", "=", "\"", "'", "v", "'", "\"">>
LineContSpace == <<"k", " ", "=", " ", "v", " ", "\\">>
LineCont == <<"l", "=", "x", "\\">>
LineWord == <<"w">>
LineNoValue == <<"\t", "l", " ", "=">>

RawLines ==
    { LineEmpty, LineComment, LineHash, LineHeader, LineHeaderEmpty, LineKeyVal,
      LineQuoted, LineNested, LineContSpace, LineCont, LineWord, LineNoValue }

\* one iteration of read()'s loop: the scanner hands out the next line
ReadLine ==
    /\ pc = "reading"
    /\ Len(input) < MaxLines
    /\ \E raw \in RawLines :
          LET r == readLine([sl |-> sl, lastLine |-> lastLine, section |-> section,
                             rRead |-> rRead], raw)
          IN  /\ input' = Append(input, raw)
              /\ sl' = r.sl
              /\ lastLine' = r.lastLine
              /\ section' = r.section
              /\ rRead' = r.rRead
              /\ pc' = IF r.panic THEN "panic" ELSE "reading"
              /\ last' = [op |-> "read", sec |-> section, key |-> raw, val |-> <<>>,
                          ok |-> r.emitted, pre |-> sl, arg |-> NewSectionList,
                          buf |-> lastLine, line |-> r.line, ret |-> <<>>]
    /\ UNCHANGED <<nOps, rErr>>
    /\ UNCHANGED <<memVars, fileVars, cs, gor>>

\* the scanner reports the end of the input, or an I/O error: the loop ends
ReadEnd ==
    /\ pc = "reading"
    /\ \E err \in {"nil", "io"} : rErr' = err
    /\ pc' = "done"
    /\ UNCHANGED <<sl, last, nOps, input, lastLine, section, rRead>>
    /\ UNCHANGED <<memVars, fileVars, cs, gor>>

InitRead ==
    /\ sl = NewSectionList
    /\ last = NoCall
    /\ nOps = 0
    /\ input = <<>>
    /\ lastLine = <<>>
    /\ section = sl.defSect
    /\ rRead = 0
    /\ rErr = "nil"
    /\ pc = "reading"
    /\ MemInit
    /\ FileInit
    /\ cs = <<>>
    /\ gor = GorInit

NextRead == ReadLine \/ ReadEnd

SpecRead == InitRead /\ [][NextRead]_vars

(***************************************************************************)
(* The calls on the list and the caller's use of the slice Sections()      *)
(* returned, on the memory                                                 *)
(***************************************************************************)
\* the section names and the value a caller stores into the returned slice
OrderSecArgs == SecArgs
CallerVals == {<<"x">>}

\* a call that works on sl.secOrder: r is its result on the list, m on the memory
MemCalled(op, sec, r, m) ==
    /\ nOps < MaxCalls
    /\ nOps' = nOps + 1
    /\ sl' = r.sl
    /\ heap' = Collect(m.heap, {m.s.arr, dest.arr})
    /\ secOrderRef' = m.s
    /\ last' = [op |-> op, sec |-> sec, key |-> <<>>, val |-> <<>>, ok |-> r.ok,
                pre |-> sl, arg |-> NewSectionList, buf |-> <<>>, line |-> <<>>,
                ret |-> <<>>]
    /\ UNCHANGED <<input, lastLine, section, rRead, rErr, pc, dest, destVal, fileVars, cs, gor>>

MemAddSectionKey ==
    \E s \in OrderSecArgs :
        MemCalled("AddSectionKey", s, AddSectionKey(sl, s, <<"k">>, <<>>),
                  AddSectionKeyOrder(heap, secOrderRef, sl, s, <<"k">>))

MemRemoveSection ==
    \E s \in OrderSecArgs :
        MemCalled("RemoveSection", s, RemoveSection(sl, s),
                  RemoveSectionOrder(heap, secOrderRef, sl, s))

MemClear ==
    MemCalled("Clear", <<>>, [sl |-> Clear(sl), ok |-> TRUE], ClearOrder(heap))

\* names, n := sl.Sections()
MemSections ==
    LET r == SectionsDest(heap, secOrderRef)
    IN  /\ nOps < MaxCalls
        /\ nOps' = nOps + 1
        /\ heap' = Collect(r.heap, {secOrderRef.arr, r.s.arr})
        /\ dest' = r.s
        /\ destVal' = View(r.heap, r.s)
        /\ last' = [op |-> "Sections", sec |-> <<>>, key |-> <<>>, val |-> <<>>,
                    ok |-> TRUE, pre |-> sl, arg |-> NewSectionList, buf |-> <<>>,
                    line |-> <<>>, ret |-> <<View(r.heap, r.s), r.len>>]
        /\ UNCHANGED <<sl, secOrderRef, input, lastLine, section, rRead, rErr, pc, fileVars, cs, gor>>

\* the caller assigns to an element of the returned slice: names[i] = x
CallerWrite ==
    /\ nOps < MaxCalls
    /\ \E i \in 1..dest.len, x \in CallerVals :
          /\ heap' = [heap EXCEPT ![dest.arr][dest.off + i] = x]
          /\ destVal' = [destVal EXCEPT ![i] = x]
    /\ nOps' = nOps + 1
    /\ last' = [op |-> "CallerWrite", sec |-> <<>>, key |-> <<>>, val |-> <<>>,
                ok |-> TRUE, pre |-> sl, arg |-> NewSectionList, buf |-> <<>>,
                line |-> <<>>, ret |-> <<>>]
    /\ UNCHANGED <<sl, secOrderRef, dest, input, lastLine, section, rRead, rErr, pc,
                   fileVars, cs, gor>>

\* the caller appends to the returned slice: names = append(names, x)
CallerAppend ==
    /\ nOps < MaxCalls
    /\ \E x \in CallerVals :
          LET r == goAppend(heap, dest, x)
          IN  /\ heap' = Collect(r.heap, {secOrderRef.arr, r.s.arr})
              /\ dest' = r.s
              /\ destVal' = Append(destVal, x)
    /\ nOps' = nOps + 1
    /\ last' = [op |-> "CallerAppend", sec |-> <<>>, key |-> <<>>, val |-> <<>>,
                ok |-> TRUE, pre |-> sl, arg |-> NewSectionList, buf |-> <<>>,
                line |-> <<>>, ret |-> <<>>]
    /\ UNCHANGED <<sl, secOrderRef, input, lastLine, section, rRead, rErr, pc, fileVars, cs, gor>>

NextSections ==
    \/ MemAddSectionKey
    \/ MemRemoveSection
    \/ MemClear
    \/ MemSections
    \/ CallerWrite
    \/ CallerAppend

SpecSections == Init /\ [][NextSections]_vars

(***************************************************************************)
(* The calls on a list with a file name                                    *)
(***************************************************************************)
\* sl.SetFilename(f)
DoSetFilename ==
    \E f \in FileArgs :
        /\ sl' = SetFilename(sl, f)
        /\ last' = [op |-> "SetFilename", sec |-> <<>>, key |-> <<>>, val |-> f,
                    ok |-> TRUE, pre |-> sl, arg |-> NewSectionList, buf |-> <<>>,
                    line |-> <<>>, ret |-> <<>>]
        /\ UNCHANGED <<nOps, input, lastLine, section, rRead, rErr, pc, memVars, fileVars, cs, gor>>

\* n, err := sl.Store(): os.Create truncates the file, file.Write writes the
\* text of String(), which sorts the sections, as far as it gets
DoStore ==
    /\ nOps < MaxOps
    /\ nOps' = nOps + 1
    /\ \E os \in OsAnswers(sl.fName, String(sl)) :
          /\ osRes' = os
          /\ file' = IF os.create = "nil"
                     THEN [file EXCEPT ![sl.fName] = SubSeq(String(sl), 1, os.written)]
                     ELSE file
          /\ last' = [op |-> "Store", sec |-> <<>>, key |-> <<>>, val |-> <<>>,
                      ok |-> Store(sl, os).err = "nil", pre |-> sl,
                      arg |-> NewSectionList, buf |-> <<>>, line |-> <<>>,
                      ret |-> <<Store(sl, os).n, Store(sl, os).err>>]
    /\ sl' = Sort(sl)
    /\ UNCHANGED <<input, lastLine, section, rRead, rErr, pc, memVars, cs, gor>>

NextFile ==
    \/ DoSetFilename
    \/ DoStore
    \/ DoAddSectionKey
    \/ DoRemoveSection
    \/ DoClear

SpecFile == Init /\ [][NextFile]_vars

(***************************************************************************)
(* Values: the calls that store a value and the accessors that read it     *)
(***************************************************************************)
\* the values handed to AddSectionKey or found in a line: numbers at the
\* limits of the integer sizes and texts that are no numbers
NumVals ==
    {<<"0">>, <<"1", "2", "7">>, <<"1", "2", "8">>, <<"-", "1", "2", "8">>,
      <<"-", "1", "2", "9">>, <<"2", "5", "5">>, <<"2", "5", "6">>,
      <<"3", "2", "7", "6", "7">>, <<"3", "2", "7", "6", "8">>,
      <<"-", "3", "2", "7", "6", "8">>, <<"-", "3", "2", "7", "6", "9">>,
      <<"6", "5", "5", "3", "5">>, <<"6", "5", "5", "3", "6">>,
      <<"2", "1", "4", "7", "4", "8", "3", "6", "4", "7">>,
      <<"2", "1", "4", "7", "4", "8", "3", "6", "4", "8">>,
      <<"-", "2", "1", "4", "7", "4", "8", "3", "6", "4", "8">>,
      <<"-", "2", "1", "4", "7", "4", "8", "3", "6", "4", "9">>,
      <<"4", "2", "9", "4", "9", "6", "7", "2", "9", "5">>,
      <<"4", "2", "9", "4", "9", "6", "7", "2", "9", "6">>,
      <<"9", "2", "2", "3", "3", "7", "2", "0", "3", "6", "8", "5", "4", "7", "7", "5", "8", "0", "7">>,
      <<"9", "2", "2", "3", "3", "7", "2", "0", "3", "6", "8", "5", "4", "7", "7", "5", "8", "0", "8">>,
      <<"-", "9", "2", "2", "3", "3", "7", "2", "0", "3", "6", "8", "5", "4", "7", "7", "5", "8", "0", "8">>,
      <<"-", "9", "2", "2", "3", "3", "7", "2", "0", "3", "6", "8", "5", "4", "7", "7", "5", "8", "0", "9">>,
      <<"1", "8", "4", "4", "6", "7", "4", "4", "0", "7", "3", "7", "0", "9", "5", "5", "1", "6", "1", "5">>,
      <<"1", "8", "4", "4", "6", "7", "4", "4", "0", "7", "3", "7", "0", "9", "5", "5", "1", "6", "1", "6">>,
      <<"+", "5">>, <<"-", "0">>, <<"0", "0", "7">>, <<"1", ".", "5">>,
      <<"1", "2", "a">>, <<"-">>, <<"1", " ", "2">> }

\* texts for AsBool
BoolVals ==
    {<<>>, <<"f">>, <<"F">>, <<"n">>, <<"N">>, <<"1">>, <<"t">>, <<"T">>,
      <<"y">>, <<"Y">>, <<"j">>, <<"J">>, <<"o">>, <<"O">>, <<"x">>,
      <<"T", "r", "u", "e">>, <<"x", "y", "z">>, <<"N", "o">> }

\* texts with quotes
QuoteVals ==
    {<<"'", "h", " ", "w", "'">>, <<"\"", " ", "t", " ", "'">>,
      <<"'", "t">>, <<"t", "'">>, <<"\"">>, <<"'", "'">>,
      <<" ", "\"", " ", "t", " ", "\"", " ">>, <<"\"", "'", "v", "'", "\"">> }

RawVals == NumVals \cup BoolVals \cup QuoteVals

\* the values given to the TSection of ini.go
IniVals == {<<>>, <<"0">>, <<"T", "r", "u", "e">>, <<"x", "y", "z">>}

\* the values found in the lines that are read
ReadVals == QuoteVals \cup {<<>>, <<"0">>, <<"x", "y", "z">>}

\* the <<section, key>> arguments of the accessors: the key that is stored,
\* a missing section, a missing key and a blank key
AccArgs == {<<<<>>, <<"k">>>>, <<<<"a">>, <<"k">>>>, <<<<>>, <<"l">>>>, <<<<>>, <<" ">>>>}
AccKeyArgs == {<<"k">>, <<"l">>}
BitSizes == {8, 16, 32, 64}

\* sl.AddSectionKey("", "k", raw)
ValAdd ==
    /\ pc = "idle"
    /\ nOps < MaxVals
    /\ \E raw \in RawVals :
          Called("AddSectionKey", <<>>, <<"k">>, raw,
                 AddSectionKey(sl, <<>>, <<"k">>, raw), NewSectionList)

\* sl.read() of a document with the one line k=raw
ValRead ==
    /\ pc = "idle"
    /\ nOps < MaxVals
    /\ \E raw \in ReadVals :
          LET r == readAll(readStart(sl), << <<"k", "=">> \o raw >>)
          IN  /\ ~r.panic
              /\ Called("read", <<>>, <<"k">>, raw, [sl |-> r.sl, ok |-> TRUE],
                        NewSectionList)

\* an accessor was called: nothing changes but the record of the call
Accessed(op, sec, key, ret) ==
    /\ pc = "idle"
    /\ last' = [op |-> op, sec |-> sec, key |-> key, val |-> <<>>, ok |-> ret[2],
                pre |-> sl, arg |-> NewSectionList, buf |-> <<>>, line |-> <<>>,
                ret |-> ret]
    /\ UNCHANGED <<sl, nOps, input, lastLine, section, rRead, rErr, pc, memVars,
                   fileVars, cs, gor>>

ValAsBool ==
    \E a \in AccArgs :
        Accessed("AsBool", a[1], a[2],
                 <<AsBool(sl, a[1], a[2]).val, AsBool(sl, a[1], a[2]).ok>>)

ValAsIntN ==
    \E a \in AccArgs, n \in BitSizes :
        Accessed("AsIntN", a[1], a[2],
                 <<AsIntN(sl, a[1], a[2], n).val, AsIntN(sl, a[1], a[2], n).ok, n>>)

ValAsUIntN ==
    \E a \in AccArgs, n \in BitSizes :
        Accessed("AsUIntN", a[1], a[2],
                 <<AsUIntN(sl, a[1], a[2], n).val, AsUIntN(sl, a[1], a[2], n).ok, n>>)

\* cs.AddKey("k", raw) on the TSection of ini.go
IniAdd ==
    /\ pc = "idle"
    /\ nOps < MaxVals
    /\ nOps' = nOps + 1
    /\ \E raw \in IniVals :
          /\ cs' = IniAddKey(cs, <<"k">>, raw).list
          /\ last' = [op |-> "IniAddKey", sec |-> <<>>, key |-> <<"k">>, val |-> raw,
                      ok |-> IniAddKey(cs, <<"k">>, raw).ok, pre |-> sl,
                      arg |-> NewSectionList, buf |-> <<>>, line |-> <<>>, ret |-> <<>>]
    /\ UNCHANGED <<sl, input, lastLine, section, rRead, rErr, pc, memVars, fileVars, gor>>

\* cs.AsBool(k) on the TSection of ini.go: it returns, or it panics
IniBool ==
    /\ pc = "idle"
    /\ \E k \in AccKeyArgs :
          LET r == IniAsBool(cs, k)
          IN  /\ pc' = IF r.panic THEN "panic" ELSE pc
              /\ last' = [op |-> "IniAsBool", sec |-> <<>>, key |-> k, val |-> <<>>,
                          ok |-> r.ok, pre |-> sl, arg |-> NewSectionList,
                          buf |-> <<>>, line |-> <<>>, ret |-> <<r.val, r.ok>>]
    /\ UNCHANGED <<sl, nOps, input, lastLine, section, rRead, rErr, memVars, fileVars, cs, gor>>

NextValues ==
    \/ ValAdd
    \/ ValRead
    \/ ValAsBool
    \/ ValAsIntN
    \/ ValAsUIntN
    \/ IniAdd
    \/ IniBool

SpecValues == Init /\ [][NextValues]_vars

(***************************************************************************)
(* Properties of the section list                                          *)
(***************************************************************************)
\* the arguments the properties range over
AllSecArgs == SecArgs \cup {DefSection, <<" ">>}

\* the <<section, key>> pairs a list holds
Pairs(l) ==
    UNION {{<<n, l.sections[n][i].Key>> : i \in 1..Len(l.sections[n])} :
              n \in DOMAIN l.sections}

ValueAt(l, p) == value(l.sections[p[1]], p[2]).val

\* the order list without one name
Without(order, name) == SelectSeq(order, LAMBDA n : n # name)

AddUpdateOps ==
    {"AddSectionKey", "UpdateSectKeyStr", "UpdateSectKeyBool", "UpdateSectKeyInt",
     "UpdateSectKeyUInt", "UpdateSectKeyFloat"}

\* C1: after any sequence of calls on a list that started empty, secOrder
\* holds no name twice and holds exactly the names that are keys of the
\* sections map, so its length is the number of sections.
OrderMatchesMap ==
    /\ \A i, j \in 1..Len(sl.secOrder) : i # j => sl.secOrder[i] # sl.secOrder[j]
    /\ {sl.secOrder[i] : i \in 1..Len(sl.secOrder)} = DOMAIN sl.sections
    /\ Len(sl.secOrder) = Cardinality(DOMAIN sl.sections)

\* a section was removed from a list of three
OrderMatchesMapWitness ==
    /\ last.op = "RemoveSection"
    /\ Len(last.pre.secOrder) = 3
    /\ Len(sl.secOrder) = 2

\* C2: every call that takes a section name gives the same result and the
\* same list for the empty name as for the configured default name.
DefaultAlias ==
    /\ RemoveSection(sl, <<>>) = RemoveSection(sl, sl.defSect)
    /\ GetSection(sl, <<>>) = GetSection(sl, sl.defSect)
    /\ HasSection(sl, <<>>) = HasSection(sl, sl.defSect)
    /\ \A k \in {<<"l", " ">>} :
          /\ HasSectionKey(sl, <<>>, k) = HasSectionKey(sl, sl.defSect, k)
          /\ RemoveSectionKey(sl, <<>>, k) = RemoveSectionKey(sl, sl.defSect, k)
          /\ AsString(sl, <<>>, k) = AsString(sl, sl.defSect, k)
          /\ AsBool(sl, <<>>, k) = AsBool(sl, sl.defSect, k)
          /\ AddSectionKey(sl, <<>>, k, <<" ", "v">>)
                = AddSectionKey(sl, sl.defSect, k, <<" ", "v">>)
          /\ UpdateSectKeyStr(sl, <<>>, k, <<>>) = UpdateSectKeyStr(sl, sl.defSect, k, <<>>)
          /\ UpdateSectKeyBool(sl, <<>>, k, TRUE) = UpdateSectKeyBool(sl, sl.defSect, k, TRUE)
          /\ UpdateSectKeyInt(sl, <<>>, k, 0 - 7) = UpdateSectKeyInt(sl, sl.defSect, k, 0 - 7)
          /\ UpdateSectKeyUInt(sl, <<>>, k, 10) = UpdateSectKeyUInt(sl, sl.defSect, k, 10)
          /\ UpdateSectKeyFloat(sl, <<>>, k, 1500000)
                = UpdateSectKeyFloat(sl, sl.defSect, k, 1500000)

\* a key was added under the empty name and is found under the default name
DefaultAliasWitness ==
    /\ last.op = "AddSectionKey"
    /\ last.sec = <<>>
    /\ last.ok
    /\ ~HasSection(last.pre, DefSection)
    /\ HasSectionKey(sl, DefSection, last.key)

\* C3: after A.Merge(B) every pair of B has B's value in A, every pair that
\* only A had keeps its value, and A has no pair that neither had.
MergeResult ==
    last.op = "Merge" =>
        /\ Pairs(sl) = Pairs(last.pre) \cup Pairs(last.arg)
        /\ \A p \in Pairs(last.arg) : ValueAt(sl, p) = ValueAt(last.arg, p)
        /\ \A p \in Pairs(last.pre) \ Pairs(last.arg) : ValueAt(sl, p) = ValueAt(last.pre, p)

\* a merge with a pair in both lists (of different values), a pair only in
\* A and a pair only in B
MergeResultWitness ==
    /\ last.op = "Merge"
    /\ \E p \in Pairs(last.pre) \cap Pairs(last.arg) :
          ValueAt(last.pre, p) # ValueAt(last.arg, p)
    /\ Pairs(last.pre) \ Pairs(last.arg) # {}
    /\ Pairs(last.arg) \ Pairs(last.pre) # {}

\* C5: RemoveSection of an absent section, and RemoveSectionKey of an absent
\* section or key, return true and leave the list as it was.
RemoveAbsentIsNoop ==
    /\ (last.op = "RemoveSection" /\ ~HasSection(last.pre, last.sec))
          => (last.ok /\ sl = last.pre)
    /\ (last.op = "RemoveSectionKey"
          /\ (~HasSection(last.pre, last.sec)
                \/ ~HasSectionKey(last.pre, last.sec, last.key)))
          => (last.ok /\ sl = last.pre)

\* a key that is absent was removed from a section that exists
RemoveAbsentIsNoopWitness ==
    /\ last.op = "RemoveSectionKey"
    /\ TrimSpace(last.key) # <<>>
    /\ HasSection(last.pre, last.sec)
    /\ GetSection(last.pre, last.sec) # <<>>
    /\ ~HasSectionKey(last.pre, last.sec, last.key)

\* C6: RemoveSection of a section that exists returns true, removes it from
\* the map and from secOrder, and leaves every other section's content and
\* the relative order of the other names as they were.
RemoveSectionRemoves ==
    (last.op = "RemoveSection" /\ HasSection(last.pre, last.sec)) =>
        LET name == SectionName(last.pre, last.sec)
        IN  /\ last.ok
            /\ name \notin DOMAIN sl.sections
            /\ \A i \in 1..Len(sl.secOrder) : sl.secOrder[i] # name
            /\ DOMAIN sl.sections = DOMAIN last.pre.sections \ {name}
            /\ \A n \in DOMAIN sl.sections : sl.sections[n] = last.pre.sections[n]
            /\ sl.secOrder = Without(last.pre.secOrder, name)

\* the middle one of three sections was removed
RemoveSectionRemovesWitness ==
    /\ last.op = "RemoveSection"
    /\ Len(last.pre.secOrder) = 3
    /\ SectionName(last.pre, last.sec) = last.pre.secOrder[2]
    /\ last.pre.sections[last.pre.secOrder[1]] # <<>>
    /\ last.pre.sections[last.pre.secOrder[3]] # <<>>

\* C7: after a successful AddSectionKey(s, k, v) the section exists, k holds
\* the trimmed v, and every other key of s and every other section are as
\* they were.
AddSectionKeySets ==
    (last.op = "AddSectionKey" /\ last.ok) =>
        LET name == SectionName(last.pre, last.sec)
            key == TrimSpace(last.key)
            before == GetSection(last.pre, last.sec)
            after == GetSection(sl, last.sec)
        IN  /\ HasSection(sl, last.sec)
            /\ AsString(sl, last.sec, last.key) = [val |-> TrimSpace(last.val), ok |-> TRUE]
            /\ Cardinality({i \in 1..Len(after) : after[i].Key = key}) = 1
            /\ \A i \in 1..Len(before) :
                  before[i].Key # key => value(after, before[i].Key) = value(before, before[i].Key)
            /\ \A i \in 1..Len(after) :
                  after[i].Key # key => hasKey(before, after[i].Key)
            /\ DOMAIN sl.sections = DOMAIN last.pre.sections \cup {name}
            /\ \A n \in DOMAIN last.pre.sections \ {name} :
                  sl.sections[n] = last.pre.sections[n]

\* a key that had another value was set in a section that holds another key
AddSectionKeySetsWitness ==
    /\ last.op = "AddSectionKey"
    /\ last.ok
    /\ HasSectionKey(last.pre, last.sec, last.key)
    /\ AsString(last.pre, last.sec, last.key).val # TrimSpace(last.val)
    /\ Len(GetSection(last.pre, last.sec)) = 2
    /\ Cardinality(DOMAIN last.pre.sections) >= 2

\* C8 as stated: AddSectionKey and UpdateSectKey* return true for every key
\* argument that is not the empty string.
FalseOnlyForEmptyKey ==
    /\ (last.op \in AddUpdateOps /\ last.key # <<>>) => last.ok
    /\ (last.op \in AddUpdateOps /\ ~last.ok) => last.key = <<>>

\* C8, amended: AddSectionKey and UpdateSectKey* return false exactly when
\* the key argument is empty once its surrounding whitespace is trimmed; for
\* every other key they return true for any section name and value, and the
\* section and the key exist afterwards.
FalseOnlyForBlankKey ==
    /\ last.op \in AddUpdateOps =>
          /\ last.ok <=> TrimSpace(last.key) # <<>>
          /\ last.ok => HasSectionKey(sl, last.sec, last.key)
          /\ ~last.ok => sl = last.pre
    /\ \A s \in AllSecArgs, v \in ValArgs :
          /\ ~AddSectionKey(sl, s, <<>>, v).ok
          /\ ~UpdateSectKeyStr(sl, s, <<>>, v).ok
          /\ ~UpdateSectKeyBool(sl, s, <<>>, v = <<>>).ok
          /\ ~UpdateSectKeyInt(sl, s, <<>>, 0 - 7).ok
          /\ ~UpdateSectKeyUInt(sl, s, <<>>, 10).ok
          /\ ~UpdateSectKeyFloat(sl, s, <<>>, 1500000).ok

\* an update created its section, and one with an empty value succeeded
FalseOnlyForBlankKeyWitness ==
    /\ last.op = "UpdateSectKeyBool"
    /\ last.ok
    /\ ~HasSection(last.pre, last.sec)
    /\ HasSectionKey(sl, last.sec, last.key)

(***************************************************************************)
(* Properties of the parser                                                *)
(***************************************************************************)
\* a raw line that is neither empty nor a comment once it is trimmed
IsContentLine(raw) ==
    TrimSpace(raw) # <<>> /\ TrimSpace(raw)[1] \notin {";", "#"}

EndsWithBackslash(raw) ==
    TrimSpace(raw) # <<>> /\ TrimSpace(raw)[Len(TrimSpace(raw))] = "\\"

\* C4: the text String() returns for a list read from a document reads back
\* into an empty list as a list that CompareTo finds equal.
RoundTrip ==
    (pc = "done" /\ rErr = "nil") =>
        LET back == readAll(readStart(NewSectionList), ScanLines(String(sl), <<>>))
        IN  ~back.panic /\ CompareTo(sl, back.sl)

\* C9: read() returns normally for every sequence of lines; no line makes it
\* panic.
ReadNeverPanics == pc # "panic"

\* C10: a content line that ends with a backslash stores nothing and emits
\* no logical line; its text without the backslash, with one space added
\* unless a space precedes the backslash, is appended to the buffer.  The
\* next content line without a backslash is classified with the buffer in
\* front of it, and the buffer is empty afterwards.
ContinuationJoins ==
    /\ (last.op = "read" /\ IsContentLine(last.key) /\ EndsWithBackslash(last.key)) =>
          LET t == TrimSpace(last.key)
              body == SubSeq(t, 1, Len(t) - 1)
          IN  /\ pc # "panic"
              /\ ~last.ok
              /\ sl = last.pre
              /\ section = last.sec
              /\ lastLine = last.buf \o body
                               \o (IF body # <<>> /\ body[Len(body)] = " "
                                   THEN <<>> ELSE <<" ">>)
    /\ (last.op = "read" /\ IsContentLine(last.key) /\ ~EndsWithBackslash(last.key)) =>
          LET logical == last.buf \o TrimSpace(last.key)
              kv == isKeyValRE(logical)
          IN  /\ pc # "panic"
              /\ last.ok
              /\ last.line = logical
              /\ lastLine = <<>>
              /\ (kv.ok /\ ~isSectionRE(logical).ok /\ TrimSpace(kv.key) # <<>>) =>
                    AsString(sl, last.sec, kv.key)
                        = [val |-> removeQuotes(kv.val), ok |-> TRUE]
    /\ input = <<LineContSpace, LineWord>> =>
          sl = Build(<< <<<<>>, <<"k">>, <<"v", " ", "w">>>> >>)
    /\ input = <<LineCont, LineWord>> =>
          sl = Build(<< <<<<>>, <<"l">>, <<"x", " ", "w">>>> >>)
    /\ input = <<LineContSpace, LineCont, LineWord>> =>
          sl = Build(<< <<<<>>, <<"k">>, <<"v", " ", "l", "=", "x", " ", "w">>>> >>)

\* two continuation lines and the line that ends them were read
ContinuationJoinsWitness ==
    /\ input = <<LineContSpace, LineCont, LineWord>>
    /\ pc = "reading"
    /\ last.buf = <<"k", " ", "=", " ", "v", " ", "l", "=", "x", " ">>
    /\ HasSectionKey(sl, <<>>, <<"k">>)

\* the raw lines that end with a backslash
ContLines == {LineContSpace, LineCont}

\* the section a document names after its lines, read off the header lines
RECURSIVE HeaderAfter(_, _)
HeaderAfter(lines, cur) ==
    IF lines = <<>> THEN cur
    ELSE HeaderAfter(Tail(lines),
                     IF Head(lines) = LineHeader THEN <<"a">>
                     ELSE IF Head(lines) = LineHeaderEmpty THEN DefSection
                     ELSE cur)

\* the key/value pair each raw line of the documents holds, if any
PairOf(raw) ==
    IF raw = LineKeyVal THEN <<<<"k">>, <<"v">>>>
    ELSE IF raw = LineQuoted THEN <<<<"l">>, <<"v">>>>
    ELSE IF raw = LineNested THEN <<<<"k">>, <<"'", "v", "'">>>>
    ELSE IF raw = LineNoValue THEN <<<<"l">>, <<>>>>
    ELSE <<>>

\* the AddSectionKey calls a document without continuation lines amounts to
RECURSIVE CallsOf(_, _)
CallsOf(lines, cur) ==
    IF lines = <<>> THEN <<>>
    ELSE LET raw == Head(lines)
             now == HeaderAfter(<<raw>>, cur)
         IN  (IF PairOf(raw) # <<>>
              THEN << <<cur, PairOf(raw)[1], PairOf(raw)[2]>> >> ELSE <<>>)
             \o CallsOf(Tail(lines), now)

\* C11: a key/value line is stored in the section of the latest header
\* before it, or in the default section when there is none (an empty header
\* name stands for the default section); a header line stores nothing and
\* only sets the current section, so no section exists without a key.
PairsFollowHeader ==
    /\ (pc # "panic" /\ \A i \in 1..Len(input) : input[i] \notin ContLines) =>
          /\ SectionName(sl, section) = HeaderAfter(input, DefSection)
          /\ sl = Build(CallsOf(input, DefSection))
    /\ (last.op = "read" /\ last.ok /\ isSectionRE(last.line).ok) =>
          /\ sl = last.pre
          /\ section = isSectionRE(last.line).name
    /\ (last.op = "read" /\ last.ok /\ ~isSectionRE(last.line).ok
            /\ isKeyValRE(last.line).ok) =>
          LET kv == isKeyValRE(last.line)
              s == SectionName(sl, last.sec)
          IN  /\ section = last.sec
              /\ AsString(sl, s, kv.key) = [val |-> removeQuotes(kv.val), ok |-> TRUE]
              /\ \A p \in Pairs(sl) \cup Pairs(last.pre) :
                    p # <<s, TrimSpace(kv.key)>> =>
                        /\ p \in Pairs(sl) /\ p \in Pairs(last.pre)
                        /\ ValueAt(sl, p) = ValueAt(last.pre, p)
    /\ \A s \in DOMAIN sl.sections : sl.sections[s] # <<>>

\* a pair before any header, a header, a pair after it, and a header that
\* no pair follows
PairsFollowHeaderWitness ==
    /\ input = <<LineKeyVal, LineHeader, LineQuoted>>
    /\ pc = "reading"
    /\ AsString(sl, DefSection, <<"k">>).ok
    /\ AsString(sl, <<"a">>, <<"l">>).ok
    /\ ~AsString(sl, DefSection, <<"l">>).ok

(***************************************************************************)
(* Properties of Sections()                                                *)
(***************************************************************************)
\* C12: Sections() returns the names of secOrder and their number in a slice
\* of its own: whatever the caller stores into or appends to that slice, the
\* order the list itself holds (what a later Sections() returns and String()
\* follows) stays what the calls on the list made it, and whatever is called
\* on the list later, RemoveSection of a middle entry included, the returned
\* slice holds what the caller last left in it.
SectionsIsCopy ==
    /\ View(heap, dest) = destVal
    /\ View(heap, secOrderRef) = sl.secOrder
    /\ last.op = "Sections" =>
          /\ last.ret = <<sl.secOrder, Len(sl.secOrder)>>
          /\ sl = last.pre
          /\ (dest.arr # 0 => dest.arr # secOrderRef.arr)
    /\ last.op \in {"CallerWrite", "CallerAppend"} =>
          /\ SectionsDest(heap, secOrderRef).len = Len(last.pre.secOrder)
          /\ View(SectionsDest(heap, secOrderRef).heap, SectionsDest(heap, secOrderRef).s)
                = last.pre.secOrder
          /\ SectionsString(sl, View(heap, secOrderRef)) = String(last.pre)

\* a middle entry was removed after Sections() had returned three names
SectionsIsCopyWitness ==
    /\ last.op = "RemoveSection"
    /\ Len(last.pre.secOrder) = 3
    /\ last.pre.secOrder[2] = SectionName(sl, last.sec)
    /\ Len(sl.secOrder) = 2
    /\ destVal = last.pre.secOrder
    /\ dest.len = 3

\* C13: Sections() lists the sections in the order of their creation: a call
\* that adds, updates or removes a key of an existing section leaves the
\* order as it is, a call that creates a section puts its name last, and
\* Merge keeps the names it finds in place and puts the names it creates
\* behind them.
CreationOrder ==
    /\ (last.op \in AddUpdateOps /\ last.ok) =>
          LET s == SectionName(sl, last.sec)
          IN  Sections(sl).names =
                  IF HasSection(last.pre, s) THEN Sections(last.pre).names
                  ELSE Append(Sections(last.pre).names, s)
    /\ (last.op \in AddUpdateOps /\ ~last.ok) =>
          Sections(sl).names = Sections(last.pre).names
    /\ last.op = "RemoveSectionKey" => Sections(sl).names = Sections(last.pre).names
    /\ last.op = "Merge" =>
          LET old == Sections(last.pre).names
              new == Sections(sl).names
          IN  /\ Len(new) >= Len(old)
              /\ SubSeq(new, 1, Len(old)) = old
              /\ \A i \in Len(old) + 1 .. Len(new) :
                    /\ ~HasSection(last.pre, new[i])
                    /\ HasSection(last.arg, new[i])
    /\ Sections(sl).len = Len(Sections(sl).names)

\* a new key was added to the first of several sections
CreationOrderWitness ==
    /\ last.op = "AddSectionKey"
    /\ last.ok
    /\ Sections(sl).len >= 2
    /\ Sections(sl).names[1] = SectionName(sl, last.sec)
    /\ ~HasSectionKey(last.pre, last.sec, last.key)
    /\ HasSection(last.pre, last.sec)

\* the <<section, key, value>> triples a list holds
Triples(l) ==
    UNION {{<<n, l.sections[n][i].Key, l.sections[n][i].Value>> :
               i \in 1..Len(l.sections[n])} : n \in DOMAIN l.sections}

\* the lists the list is compared with
CompareArgs == MergeArgs \cup {NewSectionList, last.pre, sl}

\* C14: CompareTo is true exactly when both lists have the same section
\* names and every section holds the same key/value pairs, whatever the
\* order of the sections; it is reflexive and symmetric.
CompareToIsSetEquality ==
    /\ \A b \in CompareArgs :
          /\ CompareTo(sl, b) =
                (/\ DOMAIN sl.sections = DOMAIN b.sections
                 /\ Triples(sl) = Triples(b))
          /\ CompareTo(sl, b) = CompareTo(b, sl)
    /\ CompareTo(sl, sl)

\* the list equals one whose sections were created in another order
CompareToIsSetEqualityWitness ==
    \E b \in MergeArgs :
        /\ CompareTo(sl, b)
        /\ Len(sl.secOrder) = 2
        /\ sl.secOrder # b.secOrder
        /\ Cardinality(Triples(sl)) = 3

(***************************************************************************)
(* Properties of Clear and Store                                           *)
(***************************************************************************)
\* C15: after Clear() the list has no section and an empty secOrder, its
\* default section name and its file name are the ones it had, and it
\* compares equal to a new list; apart from the file name it is the list
\* NewSectionList makes, so every later call behaves as on a new list.
ClearEmpties ==
    last.op = "Clear" =>
        /\ DOMAIN sl.sections = {}
        /\ sl.secOrder = <<>>
        /\ Sections(sl).len = 0
        /\ sl.defSect = last.pre.defSect
        /\ sl.fName = last.pre.fName
        /\ CompareTo(sl, NewSectionList) /\ CompareTo(NewSectionList, sl)
        /\ sl = SetFilename(NewSectionList, last.pre.fName)
        /\ String(sl) = String(NewSectionList)

\* a list with a file name and two sections was cleared
ClearEmptiesWitness ==
    /\ last.op = "Clear"
    /\ last.pre.fName = <<"f">>
    /\ Len(last.pre.secOrder) = 2
    /\ sl.fName = <<"f">>

\* C20 as stated: a Store() that fails, at creating the file or at writing
\* it, returns the error it met and the byte count 0.
StoreFailureReportsZero ==
    (last.op = "Store" /\ last.ret[2] # "nil") =>
        /\ last.ret[1] = 0
        /\ last.ret[2] = IF osRes.create # "nil" THEN osRes.create ELSE osRes.write

\* C20: when the file cannot be created Store() returns that error and the
\* byte count 0; when the write fails it returns the write's error and the
\* number of bytes written before the failure, which is less than the length
\* of the text and not 0 when the write stopped part-way; when nothing
\* fails it returns no error and the length of the text.
StoreReturnsWriteResult ==
    last.op = "Store" =>
        /\ (osRes.create # "nil" => last.ret = <<0, osRes.create>>)
        /\ (osRes.create = "nil" /\ osRes.write # "nil") =>
              /\ last.ret = <<osRes.written, osRes.write>>
              /\ last.ret[1] < Len(String(last.pre))
              /\ last.ret[1] = Len(file[sl.fName])
        /\ (osRes.create = "nil" /\ osRes.write = "nil") =>
              /\ last.ret = <<Len(String(last.pre)), "nil">>
              /\ file[sl.fName] = String(last.pre)
        /\ CompareTo(sl, last.pre)

\* a write stopped part-way: Store() returned its error and a count above 0
StoreReturnsWriteResultWitness ==
    /\ last.op = "Store"
    /\ osRes.create = "nil"
    /\ osRes.write # "nil"
    /\ last.ret[1] > 0
    /\ last.ret[2] = "ENOSPC"

(***************************************************************************)
(* Properties of the typed accessors                                       *)
(***************************************************************************)
\* C16: a typed accessor never panics, whatever value is stored, and it
\* returns the zero value with ok = false when the section or the key is
\* missing or the stored text is empty.
AccessorsNeverPanic ==
    /\ pc # "panic"
    /\ (last.op \in {"AsBool", "AsIntN", "AsUIntN"} /\
            (~HasSectionKey(sl, last.sec, last.key)
                \/ AsString(sl, last.sec, last.key).val = <<>>)) =>
          /\ ~last.ret[2]
          /\ last.ret[1] = IF last.op = "AsBool" THEN FALSE ELSE <<"0">>
    /\ (last.op = "IniAsBool" /\ IniAsString(cs, last.key).val = <<>>) =>
          last.ret = <<FALSE, FALSE>>

\* the characters AsBool takes for false and for true
FalseChars == {"0", "f", "F", "n", "N"}
TrueChars == {"1", "t", "T", "y", "Y", "j", "J", "o", "O"}

NumLine ==
    << <<"0">>,
       <<"1">>,
       <<"5">>,
       <<"7">>,
       <<"1", "2", "7">>,
       <<"1", "2", "8">>,
       <<"1", "2", "9">>,
       <<"2", "5", "5">>,
       <<"2", "5", "6">>,
       <<"3", "2", "7", "6", "7">>,
       <<"3", "2", "7", "6", "8">>,
       <<"3", "2", "7", "6", "9">>,
       <<"6", "5", "5", "3", "5">>,
       <<"6", "5", "5", "3", "6">>,
       <<"2", "1", "4", "7", "4", "8", "3", "6", "4", "7">>,
       <<"2", "1", "4", "7", "4", "8", "3", "6", "4", "8">>,
       <<"2", "1", "4", "7", "4", "8", "3", "6", "4", "9">>,
       <<"4", "2", "9", "4", "9", "6", "7", "2", "9", "5">>,
       <<"4", "2", "9", "4", "9", "6", "7", "2", "9", "6">>,
       <<"9", "2", "2", "3", "3", "7", "2", "0", "3", "6", "8", "5", "4", "7", "7", "5", "8", "0", "7">>,
       <<"9", "2", "2", "3", "3", "7", "2", "0", "3", "6", "8", "5", "4", "7", "7", "5", "8", "0", "8">>,
       <<"9", "2", "2", "3", "3", "7", "2", "0", "3", "6", "8", "5", "4", "7", "7", "5", "8", "0", "9">>,
       <<"1", "8", "4", "4", "6", "7", "4", "4", "0", "7", "3", "7", "0", "9", "5", "5", "1", "6", "1", "5">>,
       <<"1", "8", "4", "4", "6", "7", "4", "4", "0", "7", "3", "7", "0", "9", "5", "5", "1", "6", "1", "6">> >>

\* the place of a magnitude on NumLine
Rank(d) == CHOOSE i \in 1..Len(NumLine) : NumLine[i] = d

\* the places of 2^(N-1)-1, of 2^(N-1) and of 2^N-1 on NumLine
MaxIntRank(n) == CASE n = 8 -> 5 [] n = 16 -> 10 [] n = 32 -> 15 [] n = 64 -> 20
MinIntRank(n) == CASE n = 8 -> 6 [] n = 16 -> 11 [] n = 32 -> 16 [] n = 64 -> 21
MaxUintRank(n) == CASE n = 8 -> 8 [] n = 16 -> 13 [] n = 32 -> 18 [] n = 64 -> 23

\* one or more decimal digits
DigitsOnly(t) ==
    t # <<>> /\ \A i \in 1..Len(t) : t[i] \in {"0", "1", "2", "3", "4", "5", "6", "7", "8", "9"}

\* a base-10 integer: decimal digits, with or without one sign before them
IsInteger(t) == DigitsOnly(t) \/ (Len(t) > 1 /\ t[1] \in {"+", "-"} /\ DigitsOnly(Tail(t)))

\* the magnitude of a base-10 integer, and the number as the accessors give it
Magnitude(t) == StripZeros(IF t[1] \in {"+", "-"} THEN Tail(t) ELSE t)
IsNegative(t) == t[1] = "-" /\ Magnitude(t) # <<"0">>
NumValue(t) == IF IsNegative(t) THEN <<"-">> \o Magnitude(t) ELSE Magnitude(t)

\* -2^(N-1) <= v <= 2^(N-1)-1, and 0 <= v <= 2^N-1
InIntRange(t, n) ==
    IF IsNegative(t) THEN Rank(Magnitude(t)) <= MinIntRank(n)
    ELSE Rank(Magnitude(t)) <= MaxIntRank(n)
InUintRange(t, n) == ~IsNegative(t) /\ Rank(Magnitude(t)) <= MaxUintRank(n)

\* the value stored under the key of the last call, <<>> with held = FALSE
\* when there is none
StoredAtLast ==
    LET sec == IF last.sec = <<>> THEN DefSection ELSE last.sec
    IN  IF <<sec, last.key>> \in Pairs(sl)
        THEN [val |-> ValueAt(sl, <<sec, last.key>>), held |-> TRUE]
        ELSE [val |-> <<>>, held |-> FALSE]

\* C18 (as stated): AsIntN and AsUIntN return (v, true) exactly when the
\* stored value is a base-10 integer v within the range of the width, and
\* (0, false) for every other stored value.
IntegerExactlyInRange ==
    (last.op \in {"AsIntN", "AsUIntN"} /\ StoredAtLast.held) =>
        LET v == StoredAtLast.val
            n == last.ret[3]
            fits == IF last.op = "AsIntN" THEN InIntRange(v, n) ELSE InUintRange(v, n)
        IN  IF IsInteger(v) /\ fits
            THEN last.ret = <<NumValue(v), TRUE, n>>
            ELSE last.ret = <<<<"0">>, FALSE, n>>

\* C18: AsIntN returns (v, true) exactly when the stored value is decimal
\* digits after at most one sign and v lies in -2^(N-1) .. 2^(N-1)-1;
\* AsUIntN returns (v, true) exactly when the stored value is decimal digits
\* without any sign and v lies in 0 .. 2^N-1; every other stored value gives
\* (0, false).
IntegerTextInRange ==
    (last.op \in {"AsIntN", "AsUIntN"} /\ StoredAtLast.held) =>
        LET v == StoredAtLast.val
            n == last.ret[3]
            accepted == IF last.op = "AsIntN"
                        THEN IsInteger(v) /\ InIntRange(v, n)
                        ELSE DigitsOnly(v) /\ InUintRange(v, n)
        IN  IF accepted
            THEN last.ret = <<NumValue(v), TRUE, n>>
            ELSE last.ret = <<<<"0">>, FALSE, n>>

\* AsInt8 of the stored value "-128" returned (-128, true)
IntegerTextInRangeWitness ==
    /\ last.op = "AsIntN"
    /\ StoredAtLast = [val |-> <<"-", "1", "2", "8">>, held |-> TRUE]
    /\ last.ret = << <<"-", "1", "2", "8">>, TRUE, 8>>

\* a text of two or more characters that begins and ends with the same
\* quote character, and what stands between the two
IsQuoted(t) == Len(t) >= 2 /\ t[1] \in {"'", "\""} /\ t[Len(t)] = t[1]
Inner(t) == SubSeq(t, 2, Len(t) - 1)

\* C19 (as stated): a value whose trimmed text stands in a matching pair of
\* quotes is stored without the pair, by the parser and by AddKey alike; any
\* other value is stored as its trimmed text.
QuotesStrippedEverywhere ==
    (last.op \in {"AddSectionKey", "read"} /\ last.ok /\ StoredAtLast.held) =>
        LET t == TrimSpace(last.val)
        IN  IF IsQuoted(t)
            THEN StoredAtLast.val \in {Inner(t), TrimSpace(Inner(t))}
            ELSE StoredAtLast.val = t

\* C19: the parser stores a value whose trimmed text stands in a matching
\* pair of quotes without the pair and without the whitespace next to it,
\* and any other value as its trimmed text; AddSectionKey and AddKey store
\* the trimmed text of every value, quotes included.
QuotesStrippedByParser ==
    (last.op \in {"AddSectionKey", "read"} /\ last.ok /\ StoredAtLast.held) =>
        LET t == TrimSpace(last.val)
        IN  IF last.op = "read" /\ IsQuoted(t)
            THEN StoredAtLast.val = TrimSpace(Inner(t))
            ELSE StoredAtLast.val = t

\* the line k= " t " with blanks around and inside the quotes was read and
\* t is stored
QuotesStrippedByParserWitness ==
    /\ last.op = "read"
    /\ last.val = <<" ", "\"", " ", "t", " ", "\"", " ">>
    /\ StoredAtLast = [val |-> <<"t">>, held |-> TRUE]

\* a raw line had no effect: nothing stored, no section change, nothing
\* emitted, and the loop did not panic
LineSkipped ==
    /\ pc # "panic"
    /\ ~last.ok
    /\ sl = last.pre
    /\ section = last.sec
    /\ lastLine = <<>>

\* the pending buffer alone was emitted as the logical line and the
\* continuation state is cleared
BufferEmitted ==
    /\ pc # "panic"
    /\ last.ok
    /\ last.line = last.buf
    /\ lastLine = <<>>

\* C21: a line that is empty after trimming is skipped without any effect
\* when no continuation is pending; when one is pending, the buffered
\* content is emitted as the logical line and the continuation state is
\* cleared.
EmptyLineFlushes ==
    (last.op = "read" /\ TrimSpace(last.key) = <<>>) =>
        IF last.buf = <<>> THEN LineSkipped ELSE BufferEmitted

\* C22: a line whose first non-blank character is ; or # is skipped without
\* any effect when no continuation is pending; when one is pending, the
\* buffered content alone is emitted, whatever the text and the length of
\* the comment line.
CommentLineFlushes ==
    (last.op = "read" /\ TrimSpace(last.key) # <<>>
        /\ TrimSpace(last.key)[1] \in {";", "#"}) =>
        IF last.buf = <<>> THEN LineSkipped ELSE BufferEmitted

(***************************************************************************)
(* The calls on a section: the keys of one key list                        *)
(***************************************************************************)
\* a merge that puts the other list's entries behind this list's entries
merge_Concat(kvl, aList) == kvl \o aList

\* tKeyValList.merge: every entry of aList is inserted into kvl
RECURSIVE merge(_, _)
merge(kvl, aList) ==
    IF aList = <<>> THEN kvl
    ELSE merge(insert(kvl, [Key |-> Head(aList).Key, Value |-> Head(aList).Value]).list,
               Tail(aList))

\* TSection.Merge with a section that is not nil
SectionMerge(data, aSection) == merge(data, aSection)

\* TSection.UpdateKeyBool: [list, ok]
UpdateKeyBool(data, aKey, aValue) ==
    IF aValue THEN UpdateKey(data, aKey, <<"t", "r", "u", "e">>)
    ELSE UpdateKey(data, aKey, <<"f", "a", "l", "s", "e">>)

\* TSection.Sort
SectionSort(data) == SortData(data)

\* the keys and values given to the calls on a section
SecKeyArgs == {<<"k">>, <<" ", "a">>, <<"b">>, <<"F">>}
SecValArgs == {<<"v">>, <<"w">>}

\* the sections handed to TSection.Merge
SecMergeArgs ==
    { AddKey(AddKey(NewSection, <<"b">>, <<"v">>).list, <<"F">>, <<"w">>).list,
      AddKey(AddKey(AddKey(NewSection, <<"l">>, <<"v">>).list, <<"a">>, <<"w">>).list,
             <<"k">>, <<"x">>).list }

\* the key/value lines handed to the parser
SecLines == {<<"l", "=", "v">>, <<"D", " ", "=", " ", "w">>}

\* a call on the section s of the list, with the key list r.list as its result
SectionCalled(op, s, key, val, r) ==
    Called(op, s, key, val,
           [sl |-> [sl EXCEPT !.sections[s] = r.list], ok |-> r.ok], NewSectionList)

SecAddKey ==
    \E s \in DOMAIN sl.sections, k \in SecKeyArgs, v \in SecValArgs :
        SectionCalled("AddKey", s, k, v, AddKey(sl.sections[s], k, v))

SecUpdateKey ==
    \E s \in DOMAIN sl.sections, k \in SecKeyArgs, v \in SecValArgs :
        SectionCalled("UpdateKey", s, k, v, UpdateKey(sl.sections[s], k, v))

SecRemoveKey ==
    \E s \in DOMAIN sl.sections, k \in SecKeyArgs :
        SectionCalled("RemoveKey", s, k, <<>>, RemoveKey(sl.sections[s], k))

\* Merge with another section, or with the section itself
SecMerge ==
    \E s \in DOMAIN sl.sections :
        \E other \in SecMergeArgs \cup {sl.sections[s]} :
            SectionCalled("SectionMerge", s, <<>>, <<>>,
                          [list |-> SectionMerge(sl.sections[s], other), ok |-> TRUE])

SecSort ==
    \E s \in DOMAIN sl.sections :
        SectionCalled("SectionSort", s, <<>>, <<>>,
                      [list |-> SectionSort(sl.sections[s]), ok |-> TRUE])

\* the argument aValue is kept as the text t or f
SecUpdateKeyBool ==
    \E s \in DOMAIN sl.sections, k \in SecKeyArgs, b \in BOOLEAN :
        SectionCalled("UpdateKeyBool", s, k, IF b THEN <<"t">> ELSE <<"f">>,
                      UpdateKeyBool(sl.sections[s], k, b))

SecListUpdateBool ==
    \E k \in SecKeyArgs, b \in BOOLEAN :
        Called("UpdateSectKeyBool", <<>>, k, IF b THEN <<"t">> ELSE <<"f">>,
               UpdateSectKeyBool(sl, <<>>, k, b), NewSectionList)

\* the same key list reached through the list of sections
SecListAdd ==
    \E k \in SecKeyArgs, v \in SecValArgs :
        Called("AddSectionKey", <<>>, k, v, AddSectionKey(sl, <<>>, k, v), NewSectionList)

SecListMerge ==
    \E aINI \in MergeArgs :
        \E walkOrder \in WalkOrders(aINI.sections) :
            Called("Merge", <<>>, <<>>, <<>>,
                   [sl |-> Merge(sl, aINI, walkOrder), ok |-> TRUE], aINI)

\* and by the parser: read() of a document of one line
SecRead ==
    \E raw \in SecLines :
        LET r == readAll(readStart(sl), <<raw>>)
        IN  /\ ~r.panic
            /\ Called("read", <<>>, raw, <<>>, [sl |-> r.sl, ok |-> TRUE], NewSectionList)

NextKeys ==
    \/ SecAddKey
    \/ SecUpdateKey
    \/ SecRemoveKey
    \/ SecMerge
    \/ SecSort
    \/ SecUpdateKeyBool
    \/ SecListUpdateBool
    \/ SecListAdd
    \/ SecListMerge
    \/ SecRead

SpecKeys == Init /\ [][NextKeys]_vars

\* the keys of a key list, in the order of the list
KeysOf(kvl) == [i \in 1..Len(kvl) |-> kvl[i].Key]

\* C23: no two entries of a section have the same key, whatever was added,
\* updated, removed, merged or read.
NoDuplicateKeys ==
    \A s \in DOMAIN sl.sections :
        \A i, j \in 1..Len(sl.sections[s]) :
            i # j => sl.sections[s][i].Key # sl.sections[s][j].Key

\* a key that a section of three entries already had was added again, and the
\* section still has three entries
NoDuplicateKeysWitness ==
    /\ last.op \in {"AddKey", "SectionMerge"}
    /\ last.sec \in DOMAIN sl.sections
    /\ last.sec \in DOMAIN last.pre.sections
    /\ Len(last.pre.sections[last.sec]) = 3
    /\ Len(sl.sections[last.sec]) = 3
    /\ IF last.op = "AddKey"
       THEN hasKey(last.pre.sections[last.sec], TrimSpace(last.key))
       ELSE sl.sections[last.sec] # last.pre.sections[last.sec]

\* C27 (as stated): a section keeps its pairs in the order in which the keys
\* were first inserted: a key the section did not have is placed behind all
\* the keys it has.
InsertionOrderKept ==
    (last.op = "AddKey" /\ last.ok /\ last.sec \in DOMAIN last.pre.sections
        /\ ~hasKey(last.pre.sections[last.sec], TrimSpace(last.key))) =>
        KeysOf(sl.sections[last.sec])
            = Append(KeysOf(last.pre.sections[last.sec]), TrimSpace(last.key))

\* C27: a section keeps its pairs in ascending order of the keys, whatever
\* the order in which the keys were inserted, and Sort() changes nothing.
KeysAscending ==
    /\ \A s \in DOMAIN sl.sections :
          \A i, j \in 1..Len(sl.sections[s]) :
              i < j => StrLess(sl.sections[s][i].Key, sl.sections[s][j].Key)
    /\ last.op = "SectionSort" => sl = last.pre

\* a key below all the keys of the section was added last and stands first
KeysAscendingWitness ==
    /\ last.op = "AddKey"
    /\ last.sec \in DOMAIN last.pre.sections
    /\ Len(last.pre.sections[last.sec]) >= 2
    /\ ~hasKey(last.pre.sections[last.sec], TrimSpace(last.key))
    /\ KeysOf(sl.sections[last.sec])
           = <<TrimSpace(last.key)>> \o KeysOf(last.pre.sections[last.sec])

BoolStringsFixed ==
    (last.op \in {"UpdateKeyBool", "UpdateSectKeyBool"} /\ last.ok) =>
        LET s == SectionName(sl, last.sec)
            k == TrimSpace(last.key)
        IN  \A b \in BOOLEAN :
                value(UpdateKeyBool(sl.sections[s], k, b).list, k)
                    = value(UpdateSectKeyBool(sl, s, k, b).sl.sections[s], k)

\* C28: after A.Merge(B) the sections only B had stand behind A's sections
\* in secOrder, in the order they have in B's secOrder.
MergeKeepsSectionOrder ==
    last.op = "Merge" =>
        LET OnlyInArg(n) == n \notin DOMAIN last.pre.sections
        IN  sl.secOrder = last.pre.secOrder \o SelectSeq(last.arg.secOrder, OnlyInArg)

\* C29: when the input ends while a continuation is pending, the buffered
\* content is still classified as a last logical line: a key/value pair in
\* it is stored.
PendingBufferStoredAtEnd ==
    (pc = "done" /\ lastLine # <<>> /\ ~isSectionRE(lastLine).ok
        /\ isKeyValRE(lastLine).ok) =>
        LET kv == isKeyValRE(lastLine)
        IN  /\ HasSectionKey(sl, section, TrimSpace(kv.key))
            /\ AsString(sl, section, TrimSpace(kv.key)).val = removeQuotes(kv.val)

(***************************************************************************)
(* Concurrent calls: two goroutines on one list and on its default section *)
(***************************************************************************)
\* the lock a method of TSection takes on kl.mtx: Lock() or RLock()
LockOf(op) == IF op \in {"AddKey", "RemoveKey", "SectionSort"} THEN "W" ELSE "R"

\* the methods of TSection the goroutines call, and those that change kl.data
SectionOps == {"AddKey", "RemoveKey", "SectionSort", "AsString", "SectionMerge"}
SectionMutators == {"AddKey", "RemoveKey", "SectionSort", "SectionMerge"}

\* the methods of TSectionList that change sl.sections and sl.secOrder, and
\* the readers
ListMutators == {"AddSectionKey", "Merge", "RemoveSection", "Clear"}
ListReaders == {"HasSection", "Sections", "String"}

\* the arguments of the concurrent calls
LockKeyArgs == {<<"k">>, <<"l">>}
LockSecArgs == {<<>>, <<"a">>}
LockMergeArg == AddKey(NewSection, <<"l">>, <<"v">>).list

\* sync.RWMutex: Lock() waits for every holder, RLock() for a writer
CanLock(g, mode) ==
    IF mode = "W" THEN \A h \in Goroutines \ {g} : gor[h].lock = "none"
    ELSE \A h \in Goroutines \ {g} : gor[h].lock # "W"

\* what a method of TSection makes of the key list
Effect(op, data, key) ==
    CASE op = "AddKey" -> AddKey(data, key, <<"w">>).list
      [] op = "RemoveKey" -> RemoveKey(data, key).list
      [] op = "SectionSort" -> SectionSort(data)
      [] op = "SectionMerge" -> SectionMerge(data, LockMergeArg)
      [] OTHER -> data

\* a goroutine is between two steps of a call that changes the list
InListWrite(g) == gor[g].pc \in {"mapSet", "ordered", "deleted", "orderCleared"}

\* an access to sl.sections while another goroutine is changing the map is a
\* data race: the run-time may end the program (fatal error: concurrent map
\* read and map write) or go on
MapAccess(g) ==
    \/ pc' = "idle"
    \/ /\ \E h \in Goroutines \ {g} : InListWrite(h)
       /\ pc' = "panic"

\* the secOrder without the first entry of that name
RECURSIVE OrderWithout(_, _)
OrderWithout(order, name) ==
    IF order = <<>> THEN <<>>
    ELSE IF Head(order) = name THEN Tail(order)
    ELSE <<Head(order)>> \o OrderWithout(Tail(order), name)

\* a method of TSection on the default section: the lock is taken and the
\* key list is looked at
GoLock(g) ==
    /\ pc = "idle"
    /\ nOps < MaxOps
    /\ gor[g].pc = "idle"
    /\ DefSection \in DOMAIN sl.sections
    /\ \E op \in SectionOps, k \in LockKeyArgs :
          /\ CanLock(g, LockOf(op))
          /\ gor' = [gor EXCEPT ![g] =
                        [pc |-> "busy", op |-> op, sec |-> DefSection, key |-> k,
                         lock |-> LockOf(op), new |-> FALSE,
                         snap |-> sl.sections[DefSection]]]
    /\ nOps' = nOps + 1
    /\ UNCHANGED <<sl, last, input, lastLine, section, rRead, rErr, pc, memVars,
                   fileVars, cs>>

\* the method ends and the deferred unlock runs; when another goroutine
\* changed the key list meanwhile, the change is made to the list as it is
\* now or to the list as this goroutine found it
GoUnlock(g) ==
    /\ pc = "idle"
    /\ gor[g].pc = "busy"
    /\ \E base \in {gor[g].snap} \cup
                   (IF DefSection \in DOMAIN sl.sections
                    THEN {sl.sections[DefSection]} ELSE {}) :
          sl' = IF gor[g].op \in SectionMutators /\ DefSection \in DOMAIN sl.sections
                THEN [sl EXCEPT !.sections[DefSection] =
                         Effect(gor[g].op, base, gor[g].key)]
                ELSE sl
    /\ gor' = [gor EXCEPT ![g] = Idle]
    /\ UNCHANGED <<last, nOps, input, lastLine, section, rRead, rErr, pc, memVars,
                   fileVars, cs>>

\* AddSectionKey, or Merge with a list of one pair: addSection puts a new
\* section into the map
GoAddSection(g) ==
    /\ pc = "idle"
    /\ nOps < MaxOps
    /\ gor[g].pc = "idle"
    /\ \E op \in {"AddSectionKey", "Merge"}, s \in LockSecArgs, k \in LockKeyArgs :
          LET name == SectionName(sl, s)
              new == name \notin DOMAIN sl.sections
          IN  /\ sl' = IF new THEN [sl EXCEPT !.sections = MapPut(@, name, NewSection)]
                       ELSE sl
              /\ gor' = [gor EXCEPT ![g] =
                            [pc |-> "mapSet", op |-> op, sec |-> name, key |-> k,
                             lock |-> "none", new |-> new, snap |-> <<>>]]
    /\ nOps' = nOps + 1
    /\ MapAccess(g)
    /\ UNCHANGED <<last, input, lastLine, section, rRead, rErr, memVars, fileVars, cs>>

\* addSection appends the name of the new section to sl.secOrder
GoAddOrder(g) ==
    /\ pc = "idle"
    /\ gor[g].pc = "mapSet"
    /\ sl' = IF gor[g].new THEN [sl EXCEPT !.secOrder = Append(@, gor[g].sec)] ELSE sl
    /\ gor' = [gor EXCEPT ![g].pc = "ordered"]
    /\ UNCHANGED <<last, nOps, input, lastLine, section, rRead, rErr, pc, memVars,
                   fileVars, cs>>

\* AddSectionKey calls kl.AddKey on the section it finds in the map, under
\* the section's lock
GoAddKey(g) ==
    /\ pc = "idle"
    /\ gor[g].pc = "ordered"
    /\ gor[g].sec = DefSection => CanLock(g, "W")
    /\ sl' = IF gor[g].sec \in DOMAIN sl.sections
             THEN [sl EXCEPT !.sections[gor[g].sec] =
                      AddKey(@, gor[g].key, <<"v">>).list]
             ELSE sl
    /\ gor' = [gor EXCEPT ![g] = Idle]
    /\ MapAccess(g)
    /\ UNCHANGED <<last, nOps, input, lastLine, section, rRead, rErr, memVars,
                   fileVars, cs>>

\* RemoveSection of a section that exists: delete(sl.sections, aSection)
GoRemoveSection(g) ==
    /\ pc = "idle"
    /\ nOps < MaxOps
    /\ gor[g].pc = "idle"
    /\ \E s \in LockSecArgs :
          LET name == SectionName(sl, s)
          IN  /\ name \in DOMAIN sl.sections
              /\ sl' = [sl EXCEPT !.sections = MapDelete(@, name)]
              /\ gor' = [gor EXCEPT ![g] =
                            [pc |-> "deleted", op |-> "RemoveSection", sec |-> name,
                             key |-> <<>>, lock |-> "none", new |-> FALSE,
                             snap |-> <<>>]]
    /\ nOps' = nOps + 1
    /\ MapAccess(g)
    /\ UNCHANGED <<last, input, lastLine, section, rRead, rErr, memVars, fileVars, cs>>

\* RemoveSection takes the name out of sl.secOrder
GoRemoveOrder(g) ==
    /\ pc = "idle"
    /\ gor[g].pc = "deleted"
    /\ sl' = [sl EXCEPT !.secOrder = OrderWithout(@, gor[g].sec)]
    /\ gor' = [gor EXCEPT ![g] = Idle]
    /\ UNCHANGED <<last, nOps, input, lastLine, section, rRead, rErr, pc, memVars,
                   fileVars, cs>>

\* Clear: sl.secOrder = make(tSectionOrder, 0, slDefCapacity)
GoClearOrder(g) ==
    /\ pc = "idle"
    /\ nOps < MaxOps
    /\ gor[g].pc = "idle"
    /\ sl' = [sl EXCEPT !.secOrder = <<>>]
    /\ gor' = [gor EXCEPT ![g] =
                  [pc |-> "orderCleared", op |-> "Clear", sec |-> <<>>, key |-> <<>>,
                   lock |-> "none", new |-> FALSE, snap |-> <<>>]]
    /\ nOps' = nOps + 1
    /\ UNCHANGED <<last, input, lastLine, section, rRead, rErr, pc, memVars,
                   fileVars, cs>>

\* Clear empties the map
GoClearMap(g) ==
    /\ pc = "idle"
    /\ gor[g].pc = "orderCleared"
    /\ sl' = [sl EXCEPT !.sections = [n \in {} |-> NewSection]]
    /\ gor' = [gor EXCEPT ![g] = Idle]
    /\ MapAccess(g)
    /\ UNCHANGED <<last, nOps, input, lastLine, section, rRead, rErr, memVars,
                   fileVars, cs>>

\* a reader of the list: HasSection looks into the map, Sections() copies
\* sl.secOrder, String() ranges over sl.secOrder and looks each name up in
\* the map; ret is what the list holds at that moment: the names of the map
\* and sl.secOrder
GoRead(g) ==
    /\ pc = "idle"
    /\ nOps < MaxOps
    /\ gor[g].pc = "idle"
    /\ \E op \in ListReaders :
          last' = [op |-> op, sec |-> <<>>, key |-> <<>>, val |-> <<>>, ok |-> TRUE,
                   pre |-> sl, arg |-> NewSectionList, buf |-> <<>>, line |-> <<>>,
                   ret |-> <<DOMAIN sl.sections, sl.secOrder>>]
    /\ nOps' = nOps + 1
    /\ MapAccess(g)
    /\ UNCHANGED <<sl, gor, input, lastLine, section, rRead, rErr, memVars,
                   fileVars, cs>>

\* the list before the goroutines start: one pair in the default section
InitLocks ==
    /\ sl = AddSectionKey(NewSectionList, <<>>, <<"k">>, <<"v">>).sl
    /\ last = NoCall
    /\ nOps = 0
    /\ input = <<>>
    /\ lastLine = <<>>
    /\ section = DefSection
    /\ rRead = 0
    /\ rErr = "nil"
    /\ pc = "idle"
    /\ MemInit
    /\ FileInit
    /\ cs = <<>>
    /\ gor = GorInit

NextLocks ==
    \E g \in Goroutines :
        \/ GoLock(g)
        \/ GoUnlock(g)
        \/ GoAddSection(g)
        \/ GoAddOrder(g)
        \/ GoAddKey(g)
        \/ GoRemoveSection(g)
        \/ GoRemoveOrder(g)
        \/ GoClearOrder(g)
        \/ GoClearMap(g)
        \/ GoRead(g)

SpecLocks == InitLocks /\ [][NextLocks]_vars

\* C25: every call that changes the list or a section holds the writer lock
\* as long as it runs and every reader of a section holds the reader lock,
\* so that no two goroutines change the same key list at the same time and
\* no reader runs while it is changed.
WriterLockHeld ==
    /\ \A g \in Goroutines :
          /\ (gor[g].pc = "busy" /\ gor[g].op \in SectionMutators) => gor[g].lock = "W"
          /\ (gor[g].pc = "busy" /\ gor[g].op \notin SectionMutators) =>
                gor[g].lock = "R"
          /\ InListWrite(g) => gor[g].lock = "W"
    /\ \A g, h \in Goroutines :
          (g # h /\ gor[g].pc = "busy" /\ gor[g].op \in SectionMutators) =>
              gor[h].pc # "busy"

\* C26: a reader of the list never finds a section name in the map that is
\* not in secOrder, or in secOrder that is not in the map.
ReaderSeesWholeUpdates ==
    last.op \in ListReaders =>
        last.ret[1] = {last.ret[2][i] : i \in 1..Len(last.ret[2])}

====
